---- MODULE Spec2Model ----
(***************************************************************************)
(* A model of the semantic core of the c89-compiler front end:             *)
(*   - the constant-folding / copy-propagation pass                        *)
(*     (comp_lib/src/passes/const_fold.rs), and                            *)
(*   - the AST-to-IR lowering of statements                                *)
(*     (comp_lib/src/passes/lower_ast/mod.rs, util.rs).                    *)
(* Syntax trees are records tagged by the field k; spans are left out of   *)
(* expression nodes because no pass ever changes them.                     *)
(***************************************************************************)
EXTENDS Integers, Sequences, FiniteSets, TLC

(***************************************************************************)
(* Values of the folder: enum Value { Int(i128), Float(f64) }.             *)
(* A double is carried as the exact fraction n/d (d > 0); d = 0 is an      *)
(* infinity (n = 1 or -1) or a NaN (n = 0).                                *)
(***************************************************************************)
IntV(i) == [t |-> "Int", v |-> i]

FloatV(n, d) == [t |-> "Float", n |-> n, d |-> d]

NoValue == [t |-> "None"]

IsSome(v) == v.t # "None"

(***************************************************************************)
(* Expression nodes (ast::Expression) and literals (ast::Literal).         *)
(***************************************************************************)
Dec(i) == [k |-> "Literal", lit |-> "Dec", val |-> i]

Hex(i) == [k |-> "Literal", lit |-> "Hex", val |-> i]

Octal(i) == [k |-> "Literal", lit |-> "Octal", val |-> i]

Char(i) == [k |-> "Literal", lit |-> "Char", val |-> i]

Float(n, d) == [k |-> "Literal", lit |-> "Float", n |-> n, d |-> d]

String == [k |-> "Literal", lit |-> "String"]

Ident(name) == [k |-> "Ident", name |-> name]

Binary(lhs, op, rhs) == [k |-> "Binary", lhs |-> lhs, op |-> op, rhs |-> rhs]

Unary(op, e) == [k |-> "Unary", op |-> op, e |-> e]

Assignment(lhs, rhs) == [k |-> "Assignment", lhs |-> lhs, rhs |-> rhs]

ArraySubscript(lhs, rhs) == [k |-> "ArraySubscript", lhs |-> lhs, rhs |-> rhs]

Cast(e) == [k |-> "Cast", e |-> e]

FunctionCall(args) == [k |-> "FunctionCall", args |-> args]

BinaryOperator ==
    {"Plus", "Minus", "Star", "Slash", "Pipe", "Caret", "Ampersand",
     "AngleLeft", "AngleRight", "DoubleEquals", "DoubleAmpersand",
     "DoublePipe", "BangEquals", "Percent", "AngleLeftEquals",
     "AngleRightEquals", "DoubleAngleLeft", "DoubleAngleRight"}

UnaryOperator ==
    {"Bang", "Plus", "Minus", "Star", "Tilde", "DoublePlusPrefix",
     "DoubleMinusPrefix", "DoublePlusPostfix", "DoubleMinusPostfix",
     "Ampersand"}

(***************************************************************************)
(* The build: with overflow checks (a debug build) an out-of-range shift   *)
(* panics, without them (a release build) the shift amount is masked.      *)
(* A division or remainder by zero panics in every build.                  *)
(***************************************************************************)
VARIABLES
    overflow_checks,  \* the build's overflow-checks setting
    ast,              \* ast.global_declarations, folded in place
    input,            \* the tree as const_fold received it
    ext,              \* index of the next external declaration
    pos,              \* index of the next statement of the body (0: outside a body)
    last_assign,      \* the one-slot copy-propagation fact, or NoFact
    pass,             \* 1 during the first const_fold, 2 during a second one
    first,            \* the tree the first const_fold returned
    status,           \* "folding", "done", "panicked"
    global,           \* ast.global.0, the statements build_ir_from_ast lowers
    stmt_index,       \* index of the next statement of `for statement in &ast.global.0`
    root_table,       \* the arena of items of the ScopedTable, indexed by id
    root_scope,       \* the name -> id map of the root scope handle
    res,              \* the accumulator `res` of build_ir_from_ast
    returned,         \* what build_ir_from_statement returned, per statement
    root,             \* what build_ir_from_ast returned, or NoRoot
    fit_value,        \* the i128 `value` of find_first_fit, as its 128 bits
    opts,             \* the candidates `opts` of find_first_fit, in rank order
    opt_index,        \* index of the next candidate of `for opt in opts`
    fit               \* what find_first_fit returned, or NoFit

\* the state of const_fold, and the state of build_ir_from_ast
fold_vars == <<overflow_checks, ast, input, ext, pos, last_assign, pass, first, status>>

lower_vars == <<global, stmt_index, root_table, root_scope, res, returned, root>>

\* the state of find_first_fit
fit_vars == <<fit_value, opts, opt_index, fit>>

vars == <<fold_vars, lower_vars, fit_vars>>

(***************************************************************************)
(* Integer arithmetic of i128 on the values the model reaches.             *)
(***************************************************************************)
Abs(i) == IF i < 0 THEN -i ELSE i

\* a division rounding toward minus infinity instead (a variant of TruncDiv that C1 rules out)
FloorDiv(a, b) == IF b > 0 THEN a \div b ELSE (-a) \div (-b)

\* a / b of Rust: the quotient truncated toward zero
TruncDiv(a, b) ==
    IF (a < 0) = (b < 0) THEN Abs(a) \div Abs(b) ELSE -(Abs(a) \div Abs(b))

\* a % b of Rust: the remainder, with the sign of the dividend
TruncRem(a, b) == a - b * TruncDiv(a, b)

RECURSIVE BitAnd(_, _)
BitAnd(a, b) ==
    IF a = 0 \/ b = 0 THEN 0
    ELSE IF a = -1 THEN b
    ELSE IF b = -1 THEN a
    ELSE (a % 2) * (b % 2) + 2 * BitAnd(a \div 2, b \div 2)

RECURSIVE BitOr(_, _)
BitOr(a, b) ==
    IF a = 0 THEN b
    ELSE IF b = 0 THEN a
    ELSE IF a = -1 \/ b = -1 THEN -1
    ELSE (IF a % 2 = 1 \/ b % 2 = 1 THEN 1 ELSE 0) + 2 * BitOr(a \div 2, b \div 2)

RECURSIVE BitXor(_, _)
BitXor(a, b) ==
    IF a = 0 THEN b
    ELSE IF b = 0 THEN a
    ELSE IF a = -1 THEN -b - 1
    ELSE IF b = -1 THEN -a - 1
    ELSE (IF a % 2 = b % 2 THEN 0 ELSE 1) + 2 * BitXor(a \div 2, b \div 2)

BitNot(i) == -i - 1

RECURSIVE Pow2(_)
Pow2(n) == IF n = 0 THEN 1 ELSE 2 * Pow2(n - 1)

I128Bits == 128

\* a << n for 0 <= n < 128, on the values whose result stays in range
Shl(a, n) == IF a = 0 THEN 0 ELSE a * Pow2(n)

Bool(b) == IF b THEN 1 ELSE 0

(***************************************************************************)
(* Double arithmetic on fractions.  Signed zeros are not told apart: no    *)
(* tree of the model divides by a zero that an operation made negative.    *)
(***************************************************************************)
RECURSIVE Gcd(_, _)
Gcd(a, b) == IF b = 0 THEN a ELSE Gcd(b, a % b)

Sign(i) == IF i < 0 THEN -1 ELSE IF i = 0 THEN 0 ELSE 1

\* the double n/d in lowest terms, d > 0
Norm(n, d) ==
    LET g == Gcd(Abs(n), Abs(d))
    IN  FloatV(Sign(d) * (n \div g), Abs(d) \div g)

NaN == FloatV(0, 0)

Inf(s) == FloatV(s, 0)

IsNaN(x) == x.d = 0 /\ x.n = 0

IsInf(x) == x.d = 0 /\ x.n # 0

\* `i as f64`
AsF64(i) == FloatV(i, 1)

FAdd(x, y) ==
    IF IsNaN(x) \/ IsNaN(y) THEN NaN
    ELSE IF IsInf(x) /\ IsInf(y) THEN (IF x.n = y.n THEN x ELSE NaN)
    ELSE IF IsInf(x) THEN x
    ELSE IF IsInf(y) THEN y
    ELSE Norm(x.n * y.d + y.n * x.d, x.d * y.d)

FNeg(x) == FloatV(-x.n, x.d)

FMul(x, y) ==
    IF IsNaN(x) \/ IsNaN(y) THEN NaN
    ELSE IF IsInf(x) \/ IsInf(y)
         THEN (IF x.n = 0 \/ y.n = 0 THEN NaN ELSE Inf(Sign(x.n) * Sign(y.n)))
    ELSE Norm(x.n * y.n, x.d * y.d)

FDiv(x, y) ==
    IF IsNaN(x) \/ IsNaN(y) THEN NaN
    ELSE IF IsInf(x) THEN (IF IsInf(y) THEN NaN
                           ELSE Inf(Sign(x.n) * (IF y.n < 0 THEN -1 ELSE 1)))
    ELSE IF IsInf(y) THEN FloatV(0, 1)
    ELSE IF y.n = 0 THEN (IF x.n = 0 THEN NaN ELSE Inf(Sign(x.n)))
    ELSE Norm(x.n * y.d, x.d * y.n)

FNonZero(x) == ~(x.d # 0 /\ x.n = 0)

(***************************************************************************)
(* The outcome of evaluating one operator: a value, no value (the operator *)
(* does not fold), or a panic of the running pass.                         *)
(***************************************************************************)
Ok(v) == [v |-> v, panic |-> FALSE]

Panicked == [v |-> NoValue, panic |-> TRUE]

\* the (&Int(a), &Int(b)) arm of do_op_custom!, one line per operator
IntBinOp(op, a, b) ==
    CASE op = "Plus" -> Ok(IntV(a + b))
      [] op = "Minus" -> Ok(IntV(a - b))
      [] op = "Star" -> Ok(IntV(a * b))
      [] op = "Slash" -> IF b = 0 THEN Panicked ELSE Ok(IntV(TruncDiv(a, b)))
      [] op = "Pipe" -> Ok(IntV(BitOr(a, b)))
      [] op = "Caret" -> Ok(IntV(BitXor(a, b)))
      [] op = "Ampersand" -> Ok(IntV(BitAnd(a, b)))
      [] op = "AngleLeft" -> Ok(IntV(Bool(a < b)))
      [] op = "AngleRight" -> Ok(IntV(Bool(a > b)))
      [] op = "DoubleEquals" -> Ok(IntV(Bool(a = b)))
      [] op = "DoubleAmpersand" -> Ok(IntV(Bool(a # 0 /\ b # 0)))
      [] op = "DoublePipe" -> Ok(IntV(Bool(a # 0 \/ b # 0)))
      [] op = "BangEquals" -> Ok(IntV(Bool(a # b)))
      [] op = "Percent" -> IF b = 0 THEN Panicked ELSE Ok(IntV(TruncRem(a, b)))
      [] op = "AngleLeftEquals" -> Ok(IntV(Bool(a <= b)))
      [] op = "AngleRightEquals" -> Ok(IntV(Bool(a >= b)))
      [] op = "DoubleAngleLeft" ->
            IF b >= 0 /\ b < I128Bits THEN Ok(IntV(Shl(a, b)))
            ELSE IF overflow_checks THEN Panicked
            ELSE Ok(IntV(Shl(a, b % I128Bits)))

\* the three arms with a Float operand.  do_op_custom! generates them only
\* when it is given `$op_f`: the plain form of do_op! gives it, the `int;`
\* form does not, and the `bool;` form passes it on only when the call has a
\* second expression, which `&&` and `||` alone have.  A comparison of a Float
\* operand reaches `_ => None`.
FloatBinOp(op, x, y) ==
    CASE op = "Plus" -> Ok(FAdd(x, y))
      [] op = "Minus" -> Ok(FAdd(x, FNeg(y)))
      [] op = "Star" -> Ok(FMul(x, y))
      [] op = "Slash" -> Ok(FDiv(x, y))
      [] op = "DoubleAmpersand" -> Ok(IntV(Bool(FNonZero(x) /\ FNonZero(y))))
      [] op = "DoublePipe" -> Ok(IntV(Bool(FNonZero(x) \/ FNonZero(y))))
      [] OTHER -> Ok(NoValue)

\* a `>>` that folds like `<<` does (a variant of ShiftRight that C8 rules out)
ShiftRightFolds(v1, v2) ==
    IF v1.t = "Int" /\ v2.t = "Int" /\ v2.v >= 0 /\ v2.v < I128Bits
    THEN Ok(IntV(v1.v \div Pow2(v2.v)))
    ELSE Ok(NoValue)

\* `BinaryOperator::DoubleAngleRight => None`
ShiftRight(v1, v2) == Ok(NoValue)

\* `let folded = match op_node.data { ... }` of fold_binary_op
BinOp(op, v1, v2) ==
    IF op = "DoubleAngleRight" THEN ShiftRight(v1, v2)
    ELSE IF v1.t = "Int" /\ v2.t = "Int" THEN IntBinOp(op, v1.v, v2.v)
    ELSE FloatBinOp(op,
                    IF v1.t = "Int" THEN AsF64(v1.v) ELSE v1,
                    IF v2.t = "Int" THEN AsF64(v2.v) ELSE v2)

\* `let folded = match op_node.data { ... }` of fold_unary_op, for the
\* operators that reach the end of the function
UnOp(op, v) ==
    CASE op = "Bang" ->
            IF v.t = "Int" THEN IntV(Bool(v.v = 0)) ELSE IntV(Bool(~FNonZero(v)))
      [] op = "Plus" -> v
      [] op = "Minus" -> IF v.t = "Int" THEN IntV(-v.v) ELSE FNeg(v)
      [] op = "Star" -> NoValue
      [] op = "Tilde" -> IF v.t = "Int" THEN IntV(BitNot(v.v)) ELSE NoValue

LvalueOperators ==
    {"DoublePlusPrefix", "DoubleMinusPrefix", "DoublePlusPostfix",
     "DoubleMinusPostfix", "Ampersand"}

fold_literal(e) ==
    CASE e.lit \in {"Dec", "Hex", "Octal"} -> IntV(e.val)
      [] e.lit = "Char" -> IntV(e.val)
      [] e.lit = "Float" -> FloatV(e.n, e.d)
      [] e.lit = "String" -> NoValue

\* every value written as Literal::Dec, a double losing its fraction
\* (a variant of replace_with_literal that C2 rules out)
ReplaceWithDec(expr_node, value) ==
    IF value.t = "Int" THEN Dec(value.v)
    ELSE IF value.d = 0 THEN Dec(0)
    ELSE Dec(Sign(value.n) * (Abs(value.n) \div value.d))

\* the literal node replace_with_literal leaves in the place of expr_node
replace_with_literal(expr_node, value) ==
    IF value.t = "Int" THEN Dec(value.v) ELSE Float(value.n, value.d)

(***************************************************************************)
(* The copy-propagation fact: Option<(&str, Value)>.                       *)
(***************************************************************************)
NoFact == [some |-> FALSE]

Fact(name, value) == [some |-> TRUE, name |-> name, value |-> value]

(***************************************************************************)
(* fold_expr and its helpers return the expression as they leave it, the   *)
(* Option<Value> they return, and whether they panicked.                   *)
(***************************************************************************)
Res(e, v) == [e |-> e, v |-> v, panic |-> FALSE]

Abort(e) == [e |-> e, v |-> NoValue, panic |-> TRUE]

RECURSIVE fold_expr(_, _)
RECURSIVE fold_args(_, _)

\* `let folded = self.fold_expr(&mut node.data, la)?;
\*  replace_with_literal(node, folded);`: r is what fold_expr returned
Replaced(r) ==
    IF r.panic THEN r
    ELSE IF IsSome(r.v) THEN Res(replace_with_literal(r.e, r.v), r.v)
    ELSE r

\* a child that fold_expr visits and then replaces by its literal if it has one
FoldChild(child, la) == Replaced(fold_expr(child, la))

\* fold_binary_op once both operands have a value: folded is the outcome of
\* the operator (lines 241-270)
BinaryFolded(e, r1, r2, folded) ==
    IF folded.panic THEN Abort(e)
    ELSE IF IsSome(folded.v) THEN Res([e EXCEPT !.lhs = r1.e, !.rhs = r2.e], folded.v)
    ELSE Res([e EXCEPT !.lhs = replace_with_literal(r1.e, r1.v),
                       !.rhs = replace_with_literal(r2.e, r2.v)],
             NoValue)

\* fold_binary_op after `let folded2 = self.fold_expr(rhs)?` (line 208)
BinaryAfterRhs(e, r1, r2) ==
    IF r2.panic THEN Abort(e)
    ELSE IF ~IsSome(r2.v) THEN Res([e EXCEPT !.lhs = r1.e, !.rhs = r2.e], NoValue)
    ELSE BinaryFolded(e, r1, r2, BinOp(e.op, r1.v, r2.v))

\* fold_binary_op after `let folded1 = self.fold_expr(lhs)?` (line 207)
BinaryAfterLhs(e, la, r1) ==
    IF r1.panic THEN Abort(e)
    ELSE IF ~IsSome(r1.v) THEN Res([e EXCEPT !.lhs = r1.e], NoValue)
    ELSE BinaryAfterRhs(e, r1, fold_expr(e.rhs, la))

fold_binary_op(e, la) == BinaryAfterLhs(e, la, fold_expr(e.lhs, la))

\* fold_unary_op once the operand has a value (lines 283-311)
UnaryFolded(e, r, folded) ==
    IF IsSome(folded) THEN Res([e EXCEPT !.e = r.e], folded)
    ELSE Res([e EXCEPT !.e = replace_with_literal(r.e, r.v)], NoValue)

\* fold_unary_op after `let inner_folded = self.fold_expr(expr_node)?`
UnaryAfterInner(e, r) ==
    IF r.panic THEN Abort(e)
    ELSE IF ~IsSome(r.v) THEN Res([e EXCEPT !.e = r.e], NoValue)
    ELSE IF e.op \in LvalueOperators THEN Res([e EXCEPT !.e = r.e], NoValue)
    ELSE UnaryFolded(e, r, UnOp(e.op, r.v))

fold_unary_op(e, la) == UnaryAfterInner(e, fold_expr(e.e, la))

\* the loop over fc.args: the arguments as left, or a panic
ArgsJoin(r, rest) == [args |-> <<r.e>> \o rest.args, panic |-> rest.panic]

ArgsAfterHead(args, la, r) ==
    IF r.panic THEN [args |-> args, panic |-> TRUE]
    ELSE ArgsJoin(r, fold_args(Tail(args), la))

fold_args(args, la) ==
    IF args = <<>> THEN [args |-> <<>>, panic |-> FALSE]
    ELSE ArgsAfterHead(args, la, FoldChild(Head(args), la))

\* the arms of fold_expr that fold one child and return None
AssignmentAfterRhs(e, r) ==
    IF r.panic THEN Abort(e) ELSE Res([e EXCEPT !.rhs = r.e], NoValue)

CastAfterInner(e, r) ==
    IF r.panic THEN Abort(e) ELSE Res([e EXCEPT !.e = r.e], NoValue)

CallAfterArgs(e, r) ==
    IF r.panic THEN Abort(e) ELSE Res([e EXCEPT !.args = r.args], NoValue)

SubscriptAfterRhs(e, r1, r2) ==
    IF r2.panic THEN Abort(e)
    ELSE Res([e EXCEPT !.lhs = r1.e, !.rhs = r2.e], NoValue)

SubscriptAfterLhs(e, la, r1) ==
    IF r1.panic THEN Abort(e) ELSE SubscriptAfterRhs(e, r1, FoldChild(e.rhs, la))

fold_expr(e, la) ==
    CASE e.k = "Assignment" -> AssignmentAfterRhs(e, FoldChild(e.rhs, la))
      [] e.k = "Binary" -> fold_binary_op(e, la)
      [] e.k = "ArraySubscript" -> SubscriptAfterLhs(e, la, FoldChild(e.lhs, la))
      [] e.k = "Unary" -> fold_unary_op(e, la)
      [] e.k = "Cast" -> CastAfterInner(e, FoldChild(e.e, la))
      [] e.k = "FunctionCall" -> CallAfterArgs(e, fold_args(e.args, la))
      [] e.k = "Literal" -> Res(e, fold_literal(e))
      [] e.k = "Ident" ->
            Res(e, IF la.some /\ la.name = e.name THEN la.value ELSE NoValue)

fold_expr_node(expr_node, la) ==
    IF expr_node.k = "Literal" THEN Res(expr_node, fold_literal(expr_node))
    ELSE Replaced(fold_expr(expr_node, la))

(***************************************************************************)
(* Statements (ast::Statement), declarations and blocks.  An absent        *)
(* Option is the node NoExpr, NoStmt or NoBlock.                           *)
(***************************************************************************)
NoExpr == [k |-> "NoExpr"]

NoStmt == [k |-> "NoStmt"]

NoBlock == [k |-> "NoBlock"]

Block(stmts) == [stmts |-> stmts]

\* Declaration::Variable; array_parts is a sequence of ArrayUnknown / ArrayKnown
VarDecl(ident, initializer, array_parts) ==
    [k |-> "Declaration", d |-> "Variable", ident |-> ident,
     initializer |-> initializer, array_parts |-> array_parts]

FunctionDeclaration == [k |-> "Declaration", d |-> "FunctionDeclaration"]

ArrayUnknown == [a |-> "Unknown"]

ArrayKnown(e) == [a |-> "Known", e |-> e]

ExprStmt(e) == [k |-> "Expression", e |-> e]

If(condition, if_body, else_body) ==
    [k |-> "If", condition |-> condition, if_body |-> if_body,
     else_body |-> else_body]

Switch(expr, cases) == [k |-> "Switch", expr |-> expr, cases |-> cases]

CaseExpr(expr, body) == [c |-> "Expr", expr |-> expr, body |-> body]

CaseDefault(body) == [c |-> "Default", body |-> body]

While(condition, body) == [k |-> "While", condition |-> condition, body |-> body]

For(init, condition, iter, body) ==
    [k |-> "For", init |-> init, condition |-> condition, iter |-> iter,
     body |-> body]

Break == [k |-> "Break"]

Continue == [k |-> "Continue"]

Return(e) == [k |-> "Return", e |-> e]

BlockStatement(bs) == [k |-> "BlockStatement", bs |-> bs]

FunctionDefinition(body) == [x |-> "FunctionDefinition", body |-> body]

GlobalDeclaration(decl) == [x |-> "Declaration", decl |-> decl]

(***************************************************************************)
(* fold_declaration, fold_statement, fold_block_statement, fold_switch:    *)
(* each returns the node as it leaves it, the fact it returns (where it    *)
(* returns one), and whether it panicked.                                  *)
(***************************************************************************)
SRes(s, fact) == [s |-> s, fact |-> fact, panic |-> FALSE]

SAbort(s) == [s |-> s, fact |-> NoFact, panic |-> TRUE]

\* an Option<ExpressionNode> folded with fold_expr_node when it is Some
FoldOptExprNode(e, la) ==
    IF e = NoExpr THEN Res(NoExpr, NoValue) ELSE fold_expr_node(e, la)

\* the loop over array_parts (lines 58-62)
RECURSIVE fold_array_parts(_, _)
PartsJoin(p, r, rest) ==
    [parts |-> <<IF p.a = "Known" THEN ArrayKnown(r.e) ELSE p>> \o rest.parts,
     panic |-> rest.panic]

PartsAfterHead(parts, la, r) ==
    IF r.panic THEN [parts |-> parts, panic |-> TRUE]
    ELSE PartsJoin(Head(parts), r, fold_array_parts(Tail(parts), la))

fold_array_parts(parts, la) ==
    IF parts = <<>> THEN [parts |-> <<>>, panic |-> FALSE]
    ELSE PartsAfterHead(parts, la,
                        IF Head(parts).a = "Known" THEN fold_expr_node(Head(parts).e, la)
                        ELSE Res(NoExpr, NoValue))

\* an array declaration that hands on the fact of its initializer (a variant of
\* DeclarationAfterParts that C22 rules out)
DeclarationAfterPartsKeepsFact(declaration, r, a) ==
    IF a.panic THEN SAbort(declaration)
    ELSE SRes([declaration EXCEPT !.initializer = r.e, !.array_parts = a.parts],
              IF IsSome(r.v) THEN Fact(declaration.ident, r.v) ELSE NoFact)

\* fold_declaration after the array parts were folded: `return None`
DeclarationAfterParts(declaration, r, a) ==
    IF a.panic THEN SAbort(declaration)
    ELSE SRes([declaration EXCEPT !.initializer = r.e, !.array_parts = a.parts], NoFact)

\* fold_declaration after `let res = initializer.as_mut().and_then(...)`
DeclarationAfterInit(declaration, la, r) ==
    IF r.panic THEN SAbort(declaration)
    ELSE IF declaration.array_parts # <<>>
    THEN DeclarationAfterParts(declaration, r,
                               fold_array_parts(declaration.array_parts, la))
    ELSE SRes([declaration EXCEPT !.initializer = r.e],
              IF IsSome(r.v) THEN Fact(declaration.ident, r.v) ELSE NoFact)

\* the initializer folded without the incoming fact (a variant of fold_declaration
\* that C3 rules out)
FoldDeclarationNoFact(declaration, la) ==
    IF declaration.d = "FunctionDeclaration" THEN SRes(declaration, NoFact)
    ELSE DeclarationAfterInit(declaration, la,
                              FoldOptExprNode(declaration.initializer, NoFact))

fold_declaration(declaration, la) ==
    IF declaration.d = "FunctionDeclaration" THEN SRes(declaration, NoFact)
    ELSE DeclarationAfterInit(declaration, la,
                              FoldOptExprNode(declaration.initializer, la))

RECURSIVE fold_statement(_, _)
RECURSIVE fold_stmts(_, _)
RECURSIVE fold_cases(_)

\* the loop of fold_block_statement from a given fact on
StmtsJoin(r, rest) == [stmts |-> <<r.s>> \o rest.stmts, panic |-> rest.panic]

StmtsAfterHead(stmts, r) ==
    IF r.panic THEN [stmts |-> stmts, panic |-> TRUE]
    ELSE StmtsJoin(r, fold_stmts(Tail(stmts), r.fact))

fold_stmts(stmts, la) ==
    IF stmts = <<>> THEN [stmts |-> <<>>, panic |-> FALSE]
    ELSE StmtsAfterHead(stmts, fold_statement(Head(stmts), la))

AsBlock(r) == [b |-> Block(r.stmts), panic |-> r.panic]

\* a block that starts from the fact of the enclosing function body (a variant of
\* fold_block_statement that C4 rules out)
FoldBlockInheriting(bs) == AsBlock(fold_stmts(bs.stmts, last_assign))

fold_block_statement(bs) == AsBlock(fold_stmts(bs.stmts, NoFact))

\* an Option<BlockStatementNode> folded when it is Some
FoldOptBlock(bs) ==
    IF bs = NoBlock THEN [b |-> NoBlock, panic |-> FALSE] ELSE fold_block_statement(bs)

\* the loop of fold_switch over switch.cases
CasesJoin(c, rest) == [cases |-> <<c>> \o rest.cases, panic |-> rest.panic]

CaseAfterBody(cases, re, rb) ==
    IF rb.panic THEN [cases |-> cases, panic |-> TRUE]
    ELSE CasesJoin(IF Head(cases).c = "Expr" THEN CaseExpr(re.e, rb.b)
                   ELSE CaseDefault(rb.b),
                   fold_cases(Tail(cases)))

CaseAfterExpr(cases, re) ==
    IF re.panic THEN [cases |-> cases, panic |-> TRUE]
    ELSE CaseAfterBody(cases, re, fold_block_statement(Head(cases).body))

fold_cases(cases) ==
    IF cases = <<>> THEN [cases |-> <<>>, panic |-> FALSE]
    ELSE CaseAfterExpr(cases,
                       IF Head(cases).c = "Expr" THEN fold_expr(Head(cases).expr, NoFact)
                       ELSE Res(NoExpr, NoValue))

SwitchAfterCases(switch, r) ==
    [s |-> [switch EXCEPT !.cases = r.cases], panic |-> r.panic]

fold_switch(switch) == SwitchAfterCases(switch, fold_cases(switch.cases))

\* the arms of fold_statement, each ending in the `None` of line 125
\* an expression statement that hands the fact on (a variant of ExpressionArm
\* that C5 rules out)
ExpressionArmKeepsFact(statement, r) ==
    IF r.panic THEN SAbort(statement)
    ELSE SRes([statement EXCEPT !.e = r.e], last_assign)

ExpressionArm(statement, r) ==
    IF r.panic THEN SAbort(statement)
    ELSE SRes([statement EXCEPT !.e = r.e], NoFact)

IfArm(statement, rc, ri, re) ==
    IF rc.panic \/ ri.panic \/ re.panic THEN SAbort(statement)
    ELSE SRes(If(rc.e, ri.b, re.b), NoFact)

SwitchArm(statement, r) ==
    IF r.panic THEN SAbort(statement) ELSE SRes(r.s, NoFact)

WhileArm(statement, rc, rb) ==
    IF rc.panic \/ rb.panic THEN SAbort(statement)
    ELSE SRes(While(rc.e, rb.b), NoFact)

ForArm(statement, ri, rc, rt, rb) ==
    IF ri.panic \/ rc.panic \/ rt.panic \/ rb.panic THEN SAbort(statement)
    ELSE SRes(For(ri.s, rc.e, rt.e, rb.b), NoFact)

ReturnArm(statement, r) ==
    IF r.panic THEN SAbort(statement) ELSE SRes(Return(r.e), NoFact)

BlockArm(statement, r) ==
    IF r.panic THEN SAbort(statement) ELSE SRes(BlockStatement(r.b), NoFact)

fold_statement(statement, last) ==
    CASE statement.k = "Declaration" -> fold_declaration(statement, last)
      [] statement.k = "Expression" ->
            ExpressionArm(statement, fold_expr_node(statement.e, last))
      [] statement.k = "If" ->
            IfArm(statement,
                  fold_expr_node(statement.condition, NoFact),
                  fold_block_statement(statement.if_body),
                  FoldOptBlock(statement.else_body))
      [] statement.k = "Switch" -> SwitchArm(statement, fold_switch(statement))
      [] statement.k = "While" ->
            WhileArm(statement,
                     fold_expr_node(statement.condition, NoFact),
                     fold_block_statement(statement.body))
      [] statement.k = "For" ->
            ForArm(statement,
                   IF statement.init = NoStmt THEN SRes(NoStmt, NoFact)
                   ELSE fold_statement(statement.init, NoFact),
                   FoldOptExprNode(statement.condition, NoFact),
                   FoldOptExprNode(statement.iter, NoFact),
                   fold_block_statement(statement.body))
      [] statement.k = "Break" -> SRes(statement, NoFact)
      [] statement.k = "Continue" -> SRes(statement, NoFact)
      [] statement.k = "Return" -> ReturnArm(statement, FoldOptExprNode(statement.e, last))
      [] statement.k = "BlockStatement" ->
            BlockArm(statement, fold_block_statement(statement.bs))

(***************************************************************************)
(* The trees const_fold is run on.  Bounds of the model:                   *)
(*   MaxLit    integer literals are 0 .. MaxLit, and 7                     *)
(*   MaxStmts  the longest function body built from StmtPool               *)
(*   MaxShift  the largest shift amount (after masking) applied to a       *)
(*             non-zero value                                              *)
(***************************************************************************)
MaxLit == 3

MaxStmts == 2

MaxShift == 12

IntLits == {Dec(v) : v \in 0 .. MaxLit} \cup {Dec(7)}

\* operands of the nested expressions
InnerLits == {Dec(0), Dec(2), Dec(3)}

InnerExprs ==
    {Binary(l, op, r) : l \in InnerLits, r \in InnerLits,
                        op \in {"Plus", "Star", "Slash", "DoubleAngleRight"}}
    \cup {Unary("Minus", a) : a \in IntLits}

OuterAtoms == IntLits \cup {Ident("x"), Ident("a")}

\* every operator over integer literals, and one level of nesting
IntExprs ==
    {Binary(l, op, r) : l \in IntLits, r \in IntLits, op \in BinaryOperator}
    \cup {Unary(op, a) : a \in IntLits, op \in UnaryOperator}
    \cup {Binary(l, op, r) : l \in InnerExprs, r \in OuterAtoms, op \in BinaryOperator}
    \cup {Binary(l, op, r) : l \in OuterAtoms, r \in InnerExprs, op \in BinaryOperator}
    \cup {Unary(op, a) : a \in InnerExprs, op \in UnaryOperator}

\* the other literal forms, identifiers and doubles as operands
MixedAtoms ==
    {Dec(2), Dec(0), Hex(2), Octal(1), Char(3), Float(1, 2), Float(5, 2), String,
     Ident("x"), Ident("a")}

MixedExprs ==
    MixedAtoms
    \cup {Binary(l, op, r) : l \in MixedAtoms, r \in MixedAtoms, op \in BinaryOperator}
    \cup {Unary(op, a) : a \in MixedAtoms, op \in UnaryOperator}

\* the nodes that never fold, around a few operands
Operands ==
    {Dec(2), Hex(2), Ident("x"), Ident("a"), Binary(Dec(2), "Plus", Dec(3)),
     Binary(Ident("x"), "Star", Dec(2)), Binary(Dec(3), "Slash", Dec(0)),
     Binary(Dec(3), "DoubleAngleRight", Dec(1)), Unary("Star", Ident("x"))}

NodeExprs ==
    {Cast(e) : e \in Operands}
    \cup {FunctionCall(<<>>)}
    \cup {FunctionCall(<<e>>) : e \in Operands}
    \cup {FunctionCall(<<e1, e2>>) : e1 \in Operands, e2 \in Operands}
    \cup {ArraySubscript(e1, e2) : e1 \in Operands, e2 \in Operands}
    \cup {Assignment(Ident(n), e) : n \in {"x", "a"}, e \in Operands}
    \cup {Binary(Cast(e1), "Plus", e2) : e1 \in Operands, e2 \in Operands}
    \cup {Binary(e2, "Plus", Cast(e1)) : e1 \in Operands, e2 \in {Dec(2), Ident("a")}}
    \cup {Unary("Minus", Cast(e)) : e \in Operands}

(***************************************************************************)
(* Direct evaluation of an expression in the signed-integer domain, the    *)
(* reference the fold is compared with: `/` truncates toward zero, `%`     *)
(* takes the sign of the dividend, comparisons and logical operators give  *)
(* 0 or 1, the bitwise operators act on two's complement.  It is undefined *)
(* (ok = FALSE) where evaluation traps (a zero divisor, a shift amount     *)
(* outside 0 .. 127) and for anything that is not a literal, the tracked   *)
(* identifier or a supported operator.                                     *)
(***************************************************************************)
RefBits == 12

RefQuot(a, b) ==
    LET m == CHOOSE m \in 0 .. Abs(a) : m * Abs(b) <= Abs(a) /\ Abs(a) < (m + 1) * Abs(b)
    IN  IF (a < 0) # (b < 0) THEN -m ELSE m

RefBitSet(a) == {i \in 0 .. RefBits - 1 : ((a % Pow2(RefBits)) \div Pow2(i)) % 2 = 1}

RECURSIVE RefSum(_)
RefSum(S) == IF S = {} THEN 0 ELSE LET i == CHOOSE i \in S : TRUE
                                   IN  Pow2(i) + RefSum(S \ {i})

RefFromBits(S) == IF RefBits - 1 \in S THEN RefSum(S) - Pow2(RefBits) ELSE RefSum(S)

Defined(v) == [ok |-> TRUE, v |-> v]

Undefined == [ok |-> FALSE]

RefBinary(op, a, b) ==
    CASE op = "Plus" -> Defined(a + b)
      [] op = "Minus" -> Defined(a - b)
      [] op = "Star" -> Defined(a * b)
      [] op = "Slash" -> IF b = 0 THEN Undefined ELSE Defined(RefQuot(a, b))
      [] op = "Percent" -> IF b = 0 THEN Undefined ELSE Defined(a - b * RefQuot(a, b))
      [] op = "Pipe" -> Defined(RefFromBits(RefBitSet(a) \cup RefBitSet(b)))
      [] op = "Ampersand" -> Defined(RefFromBits(RefBitSet(a) \cap RefBitSet(b)))
      [] op = "Caret" ->
            Defined(RefFromBits((RefBitSet(a) \ RefBitSet(b)) \cup (RefBitSet(b) \ RefBitSet(a))))
      [] op = "DoubleAngleLeft" ->
            IF b < 0 \/ b >= I128Bits THEN Undefined
            ELSE Defined(IF a = 0 THEN 0 ELSE a * Pow2(b))
      [] op = "AngleLeft" -> Defined(IF a < b THEN 1 ELSE 0)
      [] op = "AngleRight" -> Defined(IF a > b THEN 1 ELSE 0)
      [] op = "AngleLeftEquals" -> Defined(IF a <= b THEN 1 ELSE 0)
      [] op = "AngleRightEquals" -> Defined(IF a >= b THEN 1 ELSE 0)
      [] op = "DoubleEquals" -> Defined(IF a = b THEN 1 ELSE 0)
      [] op = "BangEquals" -> Defined(IF a # b THEN 1 ELSE 0)
      [] op = "DoubleAmpersand" -> Defined(IF a = 0 \/ b = 0 THEN 0 ELSE 1)
      [] op = "DoublePipe" -> Defined(IF a = 0 /\ b = 0 THEN 0 ELSE 1)
      [] OTHER -> Undefined

RECURSIVE DirectEval(_, _)
DirectEval(e, env) ==
    CASE e.k = "Literal" ->
            IF e.lit \in {"Dec", "Hex", "Octal", "Char"} THEN Defined(e.val) ELSE Undefined
      [] e.k = "Ident" ->
            IF env.some /\ env.name = e.name /\ env.value.t = "Int"
            THEN Defined(env.value.v) ELSE Undefined
      [] e.k = "Unary" ->
            LET a == DirectEval(e.e, env)
            IN  IF ~a.ok THEN Undefined
                ELSE (CASE e.op = "Plus" -> a
                        [] e.op = "Minus" -> Defined(0 - a.v)
                        [] e.op = "Bang" -> Defined(IF a.v = 0 THEN 1 ELSE 0)
                        [] e.op = "Tilde" ->
                              Defined(RefFromBits((0 .. RefBits - 1) \ RefBitSet(a.v)))
                        [] OTHER -> Undefined)
      [] e.k = "Binary" ->
            LET a == DirectEval(e.lhs, env)
                b == DirectEval(e.rhs, env)
            IN  IF a.ok /\ b.ok THEN RefBinary(e.op, a.v, b.v) ELSE Undefined
      [] OTHER -> Undefined

\* a shift of the tree whose result the model's integers cannot hold
RECURSIVE WideShift(_)
WideShift(e) ==
    CASE e.k = "Binary" ->
            \/ WideShift(e.lhs)
            \/ WideShift(e.rhs)
            \/ /\ e.op = "DoubleAngleLeft"
               /\ LET l == DirectEval(e.lhs, Fact("x", IntV(2)))
                      r == DirectEval(e.rhs, Fact("x", IntV(2)))
                  IN  l.ok /\ r.ok /\ l.v # 0 /\ r.v % I128Bits > MaxShift
      [] e.k = "Unary" -> WideShift(e.e)
      [] OTHER -> FALSE

ExprPool == {e \in IntExprs \cup MixedExprs \cup NodeExprs : ~WideShift(e)}


\* `int x = 2;`, the declaration that makes (x, 2) the fact
DeclX == VarDecl("x", Dec(2), <<>>)

\* `int y = x + 1;`
DeclY == VarDecl("y", Binary(Ident("x"), "Plus", Dec(1)), <<>>)

\* `if (c) { x = 3; }`
IfAssign == If(Ident("c"), Block(<<ExprStmt(Assignment(Ident("x"), Dec(3)))>>), NoBlock)

\* `f(x);`
CallX == ExprStmt(FunctionCall(<<Ident("x")>>))

StmtPool ==
    {DeclX, DeclY, IfAssign,
     VarDecl("x", NoExpr, <<>>),
     VarDecl("z", Ident("y"), <<>>),
     VarDecl("y", Binary(Ident("x"), "DoubleAngleRight", Hex(1)), <<>>),
     VarDecl("x", Dec(3), <<ArrayKnown(Binary(Ident("x"), "Plus", Dec(1)))>>),
     CallX,
     Return(Binary(Ident("x"), "Star", Ident("y"))),
     While(Binary(Ident("x"), "AngleLeft", Dec(3)), Block(<<VarDecl("y", Ident("x"), <<>>)>>)),
     For(VarDecl("x", Dec(0), <<>>), Binary(Ident("x"), "AngleLeft", Dec(3)),
         Unary("DoublePlusPostfix", Ident("x")),
         Block(<<VarDecl("y", Ident("x"), <<>>), VarDecl("z", Ident("y"), <<>>)>>)),
     Switch(Binary(Dec(1), "Plus", Dec(2)),
            <<CaseExpr(Binary(Dec(1), "Plus", Ident("x")), Block(<<VarDecl("y", Ident("x"), <<>>)>>)),
              CaseDefault(Block(<<DeclX, DeclY>>))>>),
     BlockStatement(Block(<<VarDecl("x", Octal(1), <<>>), DeclY>>))}

RECURSIVE SeqsUpTo(_, _)
SeqsUpTo(S, n) ==
    IF n = 0 THEN {<<>>}
    ELSE LET shorter == SeqsUpTo(S, n - 1)
         IN  shorter \cup {Append(q, s) : q \in shorter, s \in S}

\* `switch (1 + 2) { case 1 + 2: default: }`, `while (1 + 2) { }` and
\* `for (; 1 + 2; 1 + 2) { }`
SwitchLit ==
    Switch(Binary(Dec(1), "Plus", Dec(2)),
           <<CaseExpr(Binary(Dec(1), "Plus", Dec(2)), Block(<<>>)), CaseDefault(Block(<<>>))>>)

WhileLit == While(Binary(Dec(1), "Plus", Dec(2)), Block(<<>>))

ForLit ==
    For(NoStmt, Binary(Dec(1), "Plus", Dec(2)), Binary(Dec(1), "Plus", Dec(2)), Block(<<>>))

\* translation units: sequences of external declarations
BlockPrograms ==
    {<<FunctionDefinition(Block(ss))>> : ss \in SeqsUpTo(StmtPool, MaxStmts) \ {<<>>}}

ExprPrograms ==
    {<<FunctionDefinition(Block(<<DeclX, ExprStmt(e)>>))>> : e \in ExprPool}

FixedPrograms ==
    {<<GlobalDeclaration(DeclX), GlobalDeclaration(DeclY),
       FunctionDefinition(Block(<<DeclY>>)), FunctionDefinition(Block(<<DeclX, DeclY>>))>>,
     <<GlobalDeclaration(FunctionDeclaration),
       GlobalDeclaration(VarDecl("y", Binary(Dec(3), "Percent", Dec(0)), <<>>))>>,
     <<FunctionDefinition(Block(<<FunctionDeclaration, DeclX,
          While(Dec(1), Block(<<Break, Continue, Return(NoExpr)>>)),
          For(NoStmt, NoExpr, NoExpr, Block(<<>>)),
          If(Binary(Dec(1), "Plus", Dec(2)), Block(<<DeclX>>), Block(<<DeclY>>)),
          VarDecl("a", NoExpr, <<ArrayUnknown>>)>>))>>,
     <<FunctionDefinition(Block(<<DeclX, IfAssign, DeclY>>))>>,
     <<FunctionDefinition(Block(<<DeclX, CallX, DeclY>>))>>,
     <<FunctionDefinition(Block(<<SwitchLit, WhileLit, ForLit>>))>>}

Programs == BlockPrograms \cup ExprPrograms \cup FixedPrograms

(***************************************************************************)
(* The state machine: const_fold walks ast.global_declarations (Folder::   *)
(* fold); inside a function definition each iteration of the loop of       *)
(* fold_block_statement over the body is one step.  A second const_fold    *)
(* may be run on the tree the first one returned.                          *)
(***************************************************************************)
Init ==
    /\ overflow_checks \in BOOLEAN
    /\ ast \in Programs
    /\ input = ast
    /\ first = <<>>
    /\ ext = 1
    /\ pos = 0
    /\ last_assign = NoFact
    /\ pass = 1
    /\ status = "folding"
    /\ global = <<>>
    /\ stmt_index = 0
    /\ root_table = <<>>
    /\ root_scope = <<>>
    /\ res = <<>>
    /\ returned = <<>>
    /\ root = <<>>
    /\ fit_value = <<>>
    /\ opts = <<>>
    /\ opt_index = 0
    /\ fit = <<>>

Folding == status = "folding" /\ ext <= Len(ast)

InBody == Folding /\ ast[ext].x = "FunctionDefinition" /\ pos >= 1
          /\ pos <= Len(ast[ext].body.stmts)

\* fold_external_declaration, the Declaration arm: fold_declaration(decl, &None)
GlobalFolded(r) ==
    IF r.panic
    THEN status' = "panicked" /\ UNCHANGED <<ast, ext>>
    ELSE /\ ast' = [ast EXCEPT ![ext] = GlobalDeclaration(r.s)]
         /\ ext' = ext + 1
         /\ UNCHANGED status

FoldGlobalDeclaration ==
    /\ Folding
    /\ ast[ext].x = "Declaration"
    /\ GlobalFolded(fold_declaration(ast[ext].decl, NoFact))
    /\ UNCHANGED <<overflow_checks, input, pos, last_assign, pass, first>>
    /\ UNCHANGED <<lower_vars, fit_vars>>

\* fold_external_declaration, the FunctionDefinition arm, entering
\* fold_block_statement: `let mut last_assign = None`
EnterFunctionBody ==
    /\ Folding
    /\ ast[ext].x = "FunctionDefinition"
    /\ pos = 0
    /\ pos' = 1
    /\ last_assign' = NoFact
    /\ UNCHANGED <<overflow_checks, ast, input, ext, pass, first, status>>
    /\ UNCHANGED <<lower_vars, fit_vars>>

\* one iteration of `for statement in &mut bs.stmts`: r is what fold_statement
\* returned for the current statement
StatementFolded(r) ==
    IF r.panic
    THEN status' = "panicked" /\ UNCHANGED <<ast, pos, last_assign>>
    ELSE /\ ast' = [ast EXCEPT ![ext].body.stmts[pos] = r.s]
         /\ last_assign' = r.fact
         /\ pos' = pos + 1
         /\ UNCHANGED status

\* the statement the loop of fold_block_statement is at
Current == ast[ext].body.stmts[pos]

FoldDeclarationStatement ==
    /\ InBody
    /\ Current.k = "Declaration"
    /\ StatementFolded(fold_statement(Current, last_assign))
    /\ UNCHANGED <<overflow_checks, input, ext, pass, first>>
    /\ UNCHANGED <<lower_vars, fit_vars>>

FoldExpressionStatement ==
    /\ InBody
    /\ Current.k = "Expression"
    /\ StatementFolded(fold_statement(Current, last_assign))
    /\ UNCHANGED <<overflow_checks, input, ext, pass, first>>
    /\ UNCHANGED <<lower_vars, fit_vars>>

FoldControlFlowStatement ==
    /\ InBody
    /\ Current.k \in {"If", "Switch", "While", "For", "BlockStatement"}
    /\ StatementFolded(fold_statement(Current, last_assign))
    /\ UNCHANGED <<overflow_checks, input, ext, pass, first>>
    /\ UNCHANGED <<lower_vars, fit_vars>>

FoldJumpStatement ==
    /\ InBody
    /\ Current.k \in {"Break", "Continue", "Return"}
    /\ StatementFolded(fold_statement(Current, last_assign))
    /\ UNCHANGED <<overflow_checks, input, ext, pass, first>>
    /\ UNCHANGED <<lower_vars, fit_vars>>

\* the end of the loop of fold_block_statement on a function body
LeaveFunctionBody ==
    /\ Folding
    /\ ast[ext].x = "FunctionDefinition"
    /\ pos = Len(ast[ext].body.stmts) + 1
    /\ ext' = ext + 1
    /\ pos' = 0
    /\ last_assign' = NoFact
    /\ UNCHANGED <<overflow_checks, ast, input, pass, first, status>>
    /\ UNCHANGED <<lower_vars, fit_vars>>

\* const_fold returns
ConstFoldReturns ==
    /\ status = "folding"
    /\ ext = Len(ast) + 1
    /\ status' = "done"
    /\ first' = IF pass = 1 THEN ast ELSE first
    /\ UNCHANGED <<overflow_checks, ast, input, ext, pos, last_assign, pass>>
    /\ UNCHANGED <<lower_vars, fit_vars>>

\* the caller runs const_fold on the folded tree once more
ConstFoldAgain ==
    /\ status = "done"
    /\ pass = 1
    /\ pass' = 2
    /\ status' = "folding"
    /\ ext' = 1
    /\ pos' = 0
    /\ last_assign' = NoFact
    /\ UNCHANGED <<overflow_checks, ast, input, first>>
    /\ UNCHANGED <<lower_vars, fit_vars>>

Next ==
    \/ FoldGlobalDeclaration
    \/ EnterFunctionBody
    \/ FoldDeclarationStatement
    \/ FoldExpressionStatement
    \/ FoldControlFlowStatement
    \/ FoldJumpStatement
    \/ LeaveFunctionBody
    \/ ConstFoldReturns
    \/ ConstFoldAgain

Spec == Init /\ [][Next]_vars


(***************************************************************************)
(* What the claims speak about: statement j of function i as const_fold    *)
(* received it and as it is now, once the first pass has folded it.        *)
(***************************************************************************)
FunctionIndexes == {i \in 1 .. Len(ast) : ast[i].x = "FunctionDefinition"}

StmtIndexes(i) == 1 .. Len(ast[i].body.stmts)

InStmt(i, j) == input[i].body.stmts[j]

OutStmt(i, j) == ast[i].body.stmts[j]

Visited(i, j) ==
    pass = 2 \/ status = "done" \/ i < ext \/ (i = ext /\ pos >= 1 /\ j < pos)

IntLiteralKinds == {"Dec", "Hex", "Octal", "Char"}

IsIntLiteral(e) == e.k = "Literal" /\ e.lit \in IntLiteralKinds

\* built only from integer literals and the supported operators
RECURSIVE IntegerExpression(_)
IntegerExpression(e) ==
    CASE e.k = "Literal" -> e.lit \in IntLiteralKinds
      [] e.k = "Unary" -> e.op \in {"Bang", "Plus", "Minus", "Tilde"} /\ IntegerExpression(e.e)
      [] e.k = "Binary" ->
            /\ e.op # "DoubleAngleRight"
            /\ IntegerExpression(e.lhs)
            /\ IntegerExpression(e.rhs)
      [] OTHER -> FALSE

\* e is the one literal standing for value v where `was` stood
LiteralFor(e, was, v) ==
    /\ IsIntLiteral(e)
    /\ e.val = v
    /\ (was.k # "Literal" => e = Dec(v))

ComparisonOperators ==
    {"AngleLeft", "AngleRight", "AngleLeftEquals", "AngleRightEquals",
     "DoubleEquals", "BangEquals", "DoubleAmpersand", "DoublePipe"}

\* a non-array variable declaration
PlainDecl(st) == st.k = "Declaration" /\ st.d = "Variable" /\ st.array_parts = <<>>

\* a non-array declaration whose initializer is an integer literal
LiteralDecl(st) == PlainDecl(st) /\ IsIntLiteral(st.initializer)

\* the fact statement j of function i is folded with, where the statement
\* before it settles it by itself; no fact otherwise
EnvAt(i, j) ==
    IF j >= 2 /\ LiteralDecl(InStmt(i, j - 1))
    THEN Fact(InStmt(i, j - 1).ident, IntV(InStmt(i, j - 1).initializer.val))
    ELSE NoFact

(***************************************************************************)
(* C1  Fold soundness.  An expression statement built only from integer    *)
(* literals and the supported operators, whose direct evaluation in the    *)
(* signed-integer domain has a value, is replaced by one literal of that   *)
(* value; a comparison or logical operator yields the literal 0 or 1.      *)
(***************************************************************************)
C1_Sound(i, j) ==
    (/\ Visited(i, j)
     /\ InStmt(i, j).k = "Expression"
     /\ IntegerExpression(InStmt(i, j).e)
     /\ DirectEval(InStmt(i, j).e, NoFact).ok)
    => /\ LiteralFor(OutStmt(i, j).e, InStmt(i, j).e, DirectEval(InStmt(i, j).e, NoFact).v)
       /\ (InStmt(i, j).e.k = "Binary" /\ InStmt(i, j).e.op \in ComparisonOperators
           => OutStmt(i, j).e.val \in {0, 1})
       /\ (InStmt(i, j).e.k = "Unary" /\ InStmt(i, j).e.op = "Bang"
           => OutStmt(i, j).e.val \in {0, 1})

C1_FoldSoundness ==
    \A i \in FunctionIndexes : \A j \in StmtIndexes(i) : C1_Sound(i, j)

\* `-7 / 2` was folded to -3, `2 + 3 * 2` to 8 and `1 << 2` to 4
C1_Witness ==
    /\ status = "done"
    /\ Len(ast) = 1
    /\ Len(ast[1].body.stmts) = 2
    /\ \/ /\ InStmt(1, 2) = ExprStmt(Binary(Unary("Minus", Dec(7)), "Slash", Dec(2)))
          /\ OutStmt(1, 2) = ExprStmt(Dec(-3))
       \/ /\ InStmt(1, 2) = ExprStmt(Binary(Dec(2), "Plus", Binary(Dec(3), "Star", Dec(2))))
          /\ OutStmt(1, 2) = ExprStmt(Dec(8))

(***************************************************************************)
(* C2  Fold idempotence.  A second const_fold on the tree the first one    *)
(* returned never changes it (and never panics): at every point of the     *)
(* second pass the tree is the tree the first pass returned.               *)
(***************************************************************************)
C2_FoldIdempotence == pass = 2 => (ast = first /\ status # "panicked")

\* the second pass is over on `int x = 2; int y = x >> 0x1;`, which the first
\* pass rewrote to `int y = 2 >> 1;`
C2_Witness ==
    /\ pass = 2
    /\ status = "done"
    /\ Len(ast) = 1
    /\ Len(ast[1].body.stmts) = 2
    /\ InStmt(1, 1) = DeclX
    /\ InStmt(1, 2) = VarDecl("y", Binary(Ident("x"), "DoubleAngleRight", Hex(1)), <<>>)
    /\ OutStmt(1, 2) = VarDecl("y", Binary(Dec(2), "DoubleAngleRight", Dec(1)), <<>>)

(***************************************************************************)
(* C3  Straight-line copy propagation.  When a non-array declaration of x  *)
(* has the literal v as its (folded) initializer and the next statement of *)
(* the block is a non-array declaration of y whose initializer evaluates   *)
(* with x = v, that initializer is replaced by the literal of its value w, *)
(* and the fact after it is (y, w).                                        *)
(***************************************************************************)
C3_Propagated(i, j) ==
    (/\ j >= 2
     /\ Visited(i, j)
     /\ LiteralDecl(OutStmt(i, j - 1))
     /\ PlainDecl(InStmt(i, j))
     /\ InStmt(i, j).initializer # NoExpr
     /\ DirectEval(InStmt(i, j).initializer,
                   Fact(OutStmt(i, j - 1).ident, IntV(OutStmt(i, j - 1).initializer.val))).ok)
    => LET w == DirectEval(InStmt(i, j).initializer,
                           Fact(OutStmt(i, j - 1).ident,
                                IntV(OutStmt(i, j - 1).initializer.val))).v
       IN  /\ LiteralFor(OutStmt(i, j).initializer, InStmt(i, j).initializer, w)
           /\ (status = "folding" /\ i = ext /\ pos = j + 1
               => last_assign = Fact(InStmt(i, j).ident, IntV(w)))

ControlFlowKinds == {"If", "Switch", "While", "For", "BlockStatement"}

RECURSIVE SumOver(_, _, _)
SumOver(Op(_), q, n) == IF n = 0 THEN 0 ELSE Op(q[n]) + SumOver(Op, q, n - 1)

\* the identifier occurrences of an expression, and of a simple statement
RECURSIVE NumIdents(_)
NumIdents(e) ==
    CASE e.k = "Ident" -> 1
      [] e.k \in {"Binary", "ArraySubscript", "Assignment"} -> NumIdents(e.lhs) + NumIdents(e.rhs)
      [] e.k \in {"Unary", "Cast"} -> NumIdents(e.e)
      [] e.k = "FunctionCall" -> SumOver(NumIdents, e.args, Len(e.args))
      [] OTHER -> 0

SimpleIdents(st) ==
    CASE st.k = "Declaration" -> IF st.d = "Variable" THEN NumIdents(st.initializer) ELSE 0
      [] st.k \in {"Expression", "Return"} -> NumIdents(st.e)
      [] OTHER -> 0

\* the identifiers of the first statement of a body
FirstIdents(b) ==
    IF b = NoBlock \/ b.stmts = <<>> THEN 0 ELSE SimpleIdents(b.stmts[1])

CaseIdents(c) == (IF c.c = "Expr" THEN NumIdents(c.expr) ELSE 0) + FirstIdents(c.body)

\* the identifiers a control-flow statement must keep
BoundaryIdents(st) ==
    CASE st.k = "If" ->
            NumIdents(st.condition) + FirstIdents(st.if_body) + FirstIdents(st.else_body)
      [] st.k = "While" -> NumIdents(st.condition) + FirstIdents(st.body)
      [] st.k = "For" ->
            SimpleIdents(st.init) + NumIdents(st.condition) + NumIdents(st.iter)
            + FirstIdents(st.body)
      [] st.k = "Switch" -> NumIdents(st.expr) + SumOver(CaseIdents, st.cases, Len(st.cases))
      [] st.k = "BlockStatement" -> FirstIdents(st.bs)

C4_Step ==
    (InBody /\ Current.k \in ControlFlowKinds /\ status' = "folding")
    => /\ last_assign' = NoFact
       /\ ast'[ext].body.stmts[pos] = fold_statement(Current, NoFact).s
       /\ BoundaryIdents(ast'[ext].body.stmts[pos]) = BoundaryIdents(Current)

C4_Example ==
    (status = "done" /\ input = <<FunctionDefinition(Block(<<DeclX, IfAssign, DeclY>>))>>)
    => ast = input

C4_NoFactCrossesControlFlow == [][C4_Step]_vars /\ []C4_Example

\* after `int x = 2; while (x < 3) { int y = x; }` the loop is unchanged and
\* there is no fact
C4_Witness ==
    /\ pass = 1
    /\ status = "folding"
    /\ ext = 1
    /\ pos = 3
    /\ InStmt(1, 1) = DeclX
    /\ InStmt(1, 2).k = "While"
    /\ OutStmt(1, 2) = InStmt(1, 2)
    /\ last_assign = NoFact

Traps(e) ==
    /\ e.k = "Binary"
    /\ DirectEval(e.lhs, NoFact).ok
    /\ DirectEval(e.rhs, NoFact).ok
    /\ \/ e.op \in {"Slash", "Percent"} /\ DirectEval(e.rhs, NoFact).v = 0
       \/ /\ e.op = "DoubleAngleLeft"
          /\ (DirectEval(e.rhs, NoFact).v < 0 \/ DirectEval(e.rhs, NoFact).v >= I128Bits)

C6_TrapLeftUnfolded ==
    /\ status # "panicked"
    /\ \A i \in FunctionIndexes : \A j \in StmtIndexes(i) :
          (Visited(i, j) /\ InStmt(i, j).k = "Expression" /\ Traps(InStmt(i, j).e))
          => (OutStmt(i, j).e.k = "Binary" /\ OutStmt(i, j).e.op = InStmt(i, j).e.op)

\* `int x = 2; 3 / 0;`: the pass panicked at the division, in either build
C6_Witness ==
    /\ status = "panicked"
    /\ pass = 1
    /\ ext = 1
    /\ pos = 2
    /\ InStmt(1, 1) = DeclX
    /\ Current = ExprStmt(Binary(Dec(3), "Slash", Dec(0)))

(***************************************************************************)
(* C7  Every subexpression with a compile-time value is replaced by its    *)
(* literal, also as an operand of a binary expression whose other operand  *)
(* is the untracked identifier `a`: `(2 + 3) + a` becomes `5 + a` and      *)
(* `a + (2 + 3)` becomes `a + 5`.                                          *)
(***************************************************************************)
C7_Folded(i, j) ==
    (/\ Visited(i, j)
     /\ InStmt(i, j).k = "Expression"
     /\ InStmt(i, j).e.k = "Binary")
    => /\ (/\ InStmt(i, j).e.rhs = Ident("a")
           /\ DirectEval(InStmt(i, j).e.lhs, NoFact).ok)
          => (/\ OutStmt(i, j).e.k = "Binary"
              /\ IsIntLiteral(OutStmt(i, j).e.lhs)
              /\ OutStmt(i, j).e.lhs.val = DirectEval(InStmt(i, j).e.lhs, NoFact).v)
       /\ (/\ InStmt(i, j).e.lhs = Ident("a")
           /\ DirectEval(InStmt(i, j).e.rhs, NoFact).ok)
          => (/\ OutStmt(i, j).e.k = "Binary"
              /\ IsIntLiteral(OutStmt(i, j).e.rhs)
              /\ OutStmt(i, j).e.rhs.val = DirectEval(InStmt(i, j).e.rhs, NoFact).v)

C7_OperandsFolded ==
    \A i \in FunctionIndexes : \A j \in StmtIndexes(i) : C7_Folded(i, j)

\* `(2 + 3) + a;` went through the pass and is as it was
C7_Witness ==
    /\ status = "done"
    /\ pass = 1
    /\ Len(ast) = 1
    /\ Len(ast[1].body.stmts) = 2
    /\ InStmt(1, 2) = ExprStmt(Binary(Binary(Dec(2), "Plus", Dec(3)), "Plus", Ident("a")))
    /\ OutStmt(1, 2) = InStmt(1, 2)

(***************************************************************************)
(* C8  Shift asymmetry.  A `<<` whose operands evaluate to integers, the   *)
(* amount within 0 .. 127, is replaced by the literal of the shifted       *)
(* value; a `>>` is never replaced by a literal, whether it is the whole   *)
(* expression or the left operand of another operator, and when both its   *)
(* operands evaluate each of them is replaced by its Dec literal.          *)
(***************************************************************************)
C8_Shift(i, j) ==
    (/\ Visited(i, j)
     /\ InStmt(i, j).k = "Expression"
     /\ InStmt(i, j).e.k = "Binary")
    => LET e == InStmt(i, j).e
           l == DirectEval(e.lhs, EnvAt(i, j))
           r == DirectEval(e.rhs, EnvAt(i, j))
       IN  /\ (e.op = "DoubleAngleLeft" /\ l.ok /\ r.ok /\ r.v >= 0 /\ r.v < I128Bits)
              => OutStmt(i, j).e = Dec(IF l.v = 0 THEN 0 ELSE l.v * Pow2(r.v))
           /\ e.op = "DoubleAngleRight"
              => (/\ OutStmt(i, j).e.k = "Binary"
                  /\ OutStmt(i, j).e.op = "DoubleAngleRight"
                  /\ (l.ok /\ r.ok
                      => OutStmt(i, j).e.lhs = Dec(l.v) /\ OutStmt(i, j).e.rhs = Dec(r.v)))
           /\ (e.lhs.k = "Binary" /\ e.lhs.op = "DoubleAngleRight")
              => (/\ OutStmt(i, j).e.k = "Binary"
                  /\ OutStmt(i, j).e.lhs.k = "Binary"
                  /\ OutStmt(i, j).e.lhs.op = "DoubleAngleRight")

C8_ShiftAsymmetry ==
    \A i \in FunctionIndexes : \A j \in StmtIndexes(i) : C8_Shift(i, j)

\* `7 << 2` became 28 while `x >> 0x2` (x = 2) became `2 >> 2`
C8_Witness ==
    /\ status = "done"
    /\ Len(ast) = 1
    /\ Len(ast[1].body.stmts) = 2
    /\ InStmt(1, 1) = DeclX
    /\ \/ /\ InStmt(1, 2) = ExprStmt(Binary(Ident("x"), "DoubleAngleRight", Hex(2)))
          /\ OutStmt(1, 2) = ExprStmt(Binary(Dec(2), "DoubleAngleRight", Dec(2)))
       \/ /\ InStmt(1, 2) = ExprStmt(Binary(Dec(7), "DoubleAngleLeft", Dec(2)))
          /\ OutStmt(1, 2) = ExprStmt(Dec(28))

(***************************************************************************)
(* AST-to-IR lowering: build_ir_from_ast of comp_lib/src/passes/lower_ast. *)
(* The symbol table, the lowering of expressions, the type system and the  *)
(* diagnostic aggregator are not part of the sources at hand; they follow  *)
(* the specification (sections 4.2 - 4.5).                                 *)
(***************************************************************************)

\* the span of a part of the j-th statement of the unit
Span(j, part) == [stmt |-> j, part |-> part]

NoSpan == [stmt |-> 0, part |-> "none"]

\* ast::ExprNode, ast::IdentNode, ast::QualifiedTypeNode
ExprNode(span, data) == [span |-> span, data |-> data]

IdentNode(span, data) == [span |-> span, data |-> data]

QualifiedType(is_const, inner) == [is_const |-> is_const, inner |-> inner]

\* ast::Statement::Declaration { type_name, ident, initializer } as the j-th
\* statement; initializer is NoExpr or an expression
Declaration(j, type_name, ident, initializer) ==
    [k |-> "Declaration", span |-> Span(j, "statement"),
     type_name |-> type_name,
     ident |-> IdentNode(Span(j, "ident"), ident),
     initializer |-> IF initializer = NoExpr THEN NoExpr
                     ELSE [op_span |-> Span(j, "="),
                           init |-> ExprNode(Span(j, "init"), initializer)]]

\* ast::Statement::Expression(e), ::Printf(e), ::BlockStatement(_)
Expression(j, e) ==
    [k |-> "Expression", span |-> Span(j, "statement"), e |-> ExprNode(Span(j, "expr"), e)]

Printf(j, e) ==
    [k |-> "Printf", span |-> Span(j, "statement"), e |-> ExprNode(Span(j, "expr"), e)]

\* bs holds the statements of the block
BlockStatementWith(j, bs) ==
    [k |-> "BlockStatement", span |-> Span(j, "statement"), bs |-> bs]

BlockStatementAt(j) == BlockStatementWith(j, <<>>)

\* ---- type system (section 4.2) ----

Scalar(a) == [c |-> "Scalar", a |-> a]

Pointer == [c |-> "Pointer"]

\* CType::from_ast_type
from_ast_type(inner) ==
    CASE inner = "char" -> Scalar("Char")
      [] inner = "short" -> Scalar("Short")
      [] inner = "int" -> Scalar("Int")
      [] inner = "long" -> Scalar("Long")
      [] inner = "float" -> Scalar("Float")
      [] inner = "double" -> Scalar("Double")
      [] inner = "long double" -> Scalar("LongDouble")
      [] inner = "pointer" -> Pointer

is_integral(a) == a \in {"Char", "Short", "Int", "Long"}

\* Arithmetic::promote: sub-int integer types widen to int
promote(a) == IF a \in {"Char", "Short"} THEN "Int" ELSE a

\* ---- diagnostic aggregator (section 4.4) ----

Diagnostic(tag, span, name, original_span) ==
    [tag |-> tag, span |-> span, name |-> name, original_span |-> original_span]

\* DiagnosticBuilder::new(span).build_already_defined(name, original_span)
build_already_defined(span, name, original_span) ==
    Diagnostic("already defined", span, name, original_span)

\* DiagnosticBuilder::new(span).build_unimplemented(feature)
build_unimplemented(span, feature) == Diagnostic("unimplemented", span, feature, NoSpan)

Absent == [k |-> "Absent"]

\* AggregateResult::new_ok, ::new_err
new_ok(value) == [ok |-> TRUE, value |-> value, diags |-> <<>>]

new_err(d) == [ok |-> FALSE, value |-> Absent, diags |-> <<d>>]

\* a failed result carrying the diagnostics of both operands of a combinator
Failed(a, b) == [ok |-> FALSE, value |-> Absent, diags |-> a.diags \o b.diags]

\* res.add_to(&mut acc, |v, s| if let Some(s) = s { v.push(s) })
\* the accumulator keeps its payload, degraded once a statement has failed
\* (sections 4.4 and 7: a unit's IR may be partial)
add_to(r, acc) ==
    [ok |-> acc.ok /\ r.ok,
     value |-> IF r.ok /\ r.value # NoStmt
               THEN Append(acc.value, r.value) ELSE acc.value,
     diags |-> acc.diags \o r.diags]

\* ---- symbol table (section 4.3): ids index the arena `table`; `scope` maps
\* each name to its id in the root scope, 0 when it is not declared ----

Names == {"a", "b"}

Item(ty, is_const, original_span, initialized) ==
    [ty |-> ty, is_const |-> is_const, original_span |-> original_span,
     initialized |-> initialized]

\* ScopedHandle::declare
declare(table, scope, name, item) ==
    IF scope[name] # 0
    THEN [ok |-> FALSE, id |-> scope[name], table |-> table, scope |-> scope]
    ELSE [ok |-> TRUE, id |-> Len(table) + 1, table |-> Append(table, item),
          scope |-> [scope EXCEPT ![name] = Len(table) + 1]]

\* ScopedHandle::lookup
lookup(scope, name) == [some |-> scope[name] # 0, id |-> scope[name]]

\* ---- util.rs ----

\* a Cast node made even when the expression already has the type (a variant of
\* maybe_cast that C23 rules out)
MaybeCastAlways(inner, to_ty) ==
    [span |-> inner.span, ty |-> to_ty, expr |-> "Cast", inner |-> inner]

maybe_cast(inner, to_ty) ==
    IF to_ty = inner.ty THEN inner
    ELSE [span |-> inner.span, ty |-> to_ty, expr |-> "Cast", inner |-> inner]

\* ---- expression lowering (section 4.5), for the literals and identifiers
\* the units below are made of ----

\* expr::build_ir_expr
build_ir_expr(e, table, scope) ==
    CASE e.data.k = "Literal" ->
            new_ok([span |-> e.span,
                    ty |-> Scalar(IF e.data.lit = "Float" THEN "Double" ELSE "Int"),
                    expr |-> "Literal", lit |-> e.data])
      [] e.data.k = "Ident" ->
            IF lookup(scope, e.data.name).some
            THEN new_ok([span |-> e.span,
                         ty |-> table[lookup(scope, e.data.name).id].ty,
                         expr |-> "Ident", id |-> lookup(scope, e.data.name).id])
            ELSE new_err(Diagnostic("undeclared", e.span, e.data.name, NoSpan))

\* expr::assign: rejects a const target, casts the value to the target's type
assign(to, from, span, op_span) ==
    IF to.is_const
    THEN new_err(Diagnostic("assign to const", op_span, "", to.span))
    ELSE new_ok([span |-> span, ty |-> to.ty, expr |-> "Assign", to |-> to,
                 from |-> maybe_cast(from, to.ty)])

\* ---- mod.rs ----

\* what lowering a statement comes to: its AggregateResult and the symbol table
\* it leaves
Lowered(r, table, scope) == [res |-> r, table |-> table, scope |-> scope]

\* `Err(id)` cited with the span of the redeclaring identifier itself (a variant of
\* declaration that C10 rules out)
DeclarationCitesItself(type_name, ident, will_init, table, scope) ==
    LET d == declare(table, scope, ident.data,
                     Item(from_ast_type(type_name.inner), type_name.is_const,
                          ident.span, will_init))
    IN  IF d.ok
        THEN Lowered(new_ok([span |-> ident.span, is_const |-> type_name.is_const,
                             ty |-> from_ast_type(type_name.inner),
                             expr |-> "Ident", id |-> d.id]),
                     d.table, d.scope)
        ELSE Lowered(new_err(build_already_defined(ident.span, ident.data, ident.span)),
                     d.table, d.scope)

DeclarationDeclared(type_name, ident, d) ==
    IF d.ok
    THEN Lowered(new_ok([span |-> ident.span, is_const |-> type_name.is_const,
                         ty |-> from_ast_type(type_name.inner),
                         expr |-> "Ident", id |-> d.id]),
                 d.table, d.scope)
    ELSE Lowered(new_err(build_already_defined(ident.span, ident.data,
                                               d.table[d.id].original_span)),
                 d.table, d.scope)

declaration(type_name, ident, will_init, table, scope) ==
    DeclarationDeclared(type_name, ident,
        declare(table, scope, ident.data,
                Item(from_ast_type(type_name.inner), type_name.is_const,
                     ident.span, will_init)))

\* `expr.map(|expr| expr.map(|stmt| StmtNode { span, stmt, .. }))`
StmtNode(statement, r) ==
    IF r.ok /\ r.value # NoStmt
    THEN [r EXCEPT !.value = [span |-> statement.span, stmt |-> r.value]]
    ELSE r

\* `expr.map(|expr| Some(Stmt::Expr(expr)))`
StmtExpr(r) == IF r.ok THEN [r EXCEPT !.value = [s |-> "Expr", expr |-> r.value]] ELSE r

\* the first failure alone reported when the declaration or its initializer
\* fails (a variant of DeclarationInit that C13 rules out)
DeclarationInitFailFast(statement, d, init_expr) ==
    IF ~d.res.ok THEN Lowered(d.res, d.table, d.scope)
    ELSE IF ~init_expr.ok THEN Lowered(Failed(init_expr, new_ok(NoExpr)), d.table, d.scope)
    ELSE IF statement.initializer = NoExpr THEN Lowered(new_ok(NoStmt), d.table, d.scope)
    ELSE Lowered(StmtExpr(assign([d.res.value EXCEPT !.is_const = FALSE],
                                 init_expr.value, statement.span,
                                 statement.initializer.op_span)),
                 d.table, d.scope)

\* the initializing assignment made to the target as declared, const-ness
\* included (a variant of DeclarationInit that C12 rules out)
DeclarationInitKeepsConst(statement, d, init_expr) ==
    IF ~(d.res.ok /\ init_expr.ok) THEN Lowered(Failed(d.res, init_expr), d.table, d.scope)
    ELSE IF statement.initializer = NoExpr THEN Lowered(new_ok(NoStmt), d.table, d.scope)
    ELSE Lowered(StmtExpr(assign(d.res.value, init_expr.value, statement.span,
                                 statement.initializer.op_span)),
                 d.table, d.scope)

\* `.zip(init_expr).and_then(|(mut to, init_expr)| ...)`
DeclarationInit(statement, d, init_expr) ==
    IF ~(d.res.ok /\ init_expr.ok) THEN Lowered(Failed(d.res, init_expr), d.table, d.scope)
    ELSE IF statement.initializer = NoExpr THEN Lowered(new_ok(NoStmt), d.table, d.scope)
    ELSE Lowered(StmtExpr(assign([d.res.value EXCEPT !.is_const = FALSE],
                                 init_expr.value, statement.span,
                                 statement.initializer.op_span)),
                 d.table, d.scope)

\* `let init_expr = match initializer.as_ref() { ... }`
InitExpr(statement, table, scope) ==
    IF statement.initializer = NoExpr THEN new_ok(NoExpr)
    ELSE build_ir_expr(statement.initializer.init, table, scope)

\* the identifier declared first and the initializer lowered in the scope that
\* holds it (a variant of DeclarationArm that C9 rules out)
DeclarationArmDeclaresFirst(statement, table, scope) ==
    LET d == declaration(statement.type_name, statement.ident,
                         statement.initializer # NoExpr, table, scope)
    IN  DeclarationInit(statement, d, InitExpr(statement, d.table, d.scope))

\* the ast::Statement::Declaration arm of build_ir_from_statement
DeclarationArm(statement, table, scope) ==
    DeclarationInit(statement,
                    declaration(statement.type_name, statement.ident,
                                statement.initializer # NoExpr, table, scope),
                    InitExpr(statement, table, scope))

\* the closure of the ast::Statement::Printf arm
PrintfPromoted(expr) ==
    IF expr.ty.c = "Scalar"
    THEN IF is_integral(expr.ty.a)
         THEN maybe_cast(expr, Scalar(promote(expr.ty.a)))
         ELSE maybe_cast(expr, Scalar("Double"))
    ELSE expr

PrintfArm(r) ==
    IF r.ok THEN [r EXCEPT !.value = [s |-> "Printf", expr |-> PrintfPromoted(r.value)]]
    ELSE r

\* a block whose first statement, when it is a declaration, is lowered in
\* the scope of the block statement itself (a variant of BlockStatementArm
\* that C11 rules out)
BlockStatementArmLowersInner(statement, table, scope) ==
    IF statement.bs # <<>> /\ statement.bs[1].k = "Declaration"
    THEN DeclarationArm(statement.bs[1], table, scope)
    ELSE Lowered(new_err(build_unimplemented(statement.span, "blocks")), table, scope)

\* the ast::Statement::BlockStatement arm of build_ir_from_statement
BlockStatementArm(statement, table, scope) ==
    Lowered(new_err(build_unimplemented(statement.span, "blocks")), table, scope)

build_ir_from_statement(statement, table, scope) ==
    CASE statement.k = "Declaration" ->
            [DeclarationArm(statement, table, scope) EXCEPT
                !.res = StmtNode(statement, @)]
      [] statement.k = "Expression" ->
            Lowered(StmtNode(statement, StmtExpr(build_ir_expr(statement.e, table, scope))),
                    table, scope)
      [] statement.k = "Printf" ->
            Lowered(StmtNode(statement, PrintfArm(build_ir_expr(statement.e, table, scope))),
                    table, scope)
      [] statement.k = "BlockStatement" -> BlockStatementArm(statement, table, scope)

\* ---- the compilation units lowered ----

MaxUnit == 2

DeclTypes == {QualifiedType(FALSE, "int"), QualifiedType(TRUE, "double")}

\* the statements a unit may have as its j-th
LowerStmts(j) ==
    {Declaration(j, ty, n, i) :
        ty \in DeclTypes, n \in Names, i \in {NoExpr, Dec(1), Ident("a")}}
    \cup {Declaration(j, QualifiedType(FALSE, "char"), "b", Dec(1)),
          Declaration(j, QualifiedType(FALSE, "float"), "b", NoExpr),
          Declaration(j, QualifiedType(FALSE, "pointer"), "b", NoExpr),
          Expression(j, Ident("a")),
          Expression(j, Ident("b")),
          Printf(j, Ident("a")),
          Printf(j, Ident("b")),
          Printf(j, Float(1, 2)),
          BlockStatementAt(j)}

RECURSIVE UnitsOfLen(_)
UnitsOfLen(n) ==
    IF n = 0 THEN {<<>>}
    ELSE {Append(u, st) : u \in UnitsOfLen(n - 1), st \in LowerStmts(n)}

\* the types of the printf arguments of PrintfUnit
PrintfTypes == {"char", "short", "int", "long", "float", "double", "long double"}

\* `T a; printf(a);`
PrintfUnit(ty) ==
    <<Declaration(1, QualifiedType(FALSE, ty), "a", NoExpr), Printf(2, Ident("a"))>>

\* `int a; { double a = 1; a; } a;`
ShadowUnit ==
    <<Declaration(1, QualifiedType(FALSE, "int"), "a", NoExpr),
      BlockStatementWith(2, <<Declaration(2, QualifiedType(FALSE, "double"), "a", Dec(1)),
                              Expression(2, Ident("a"))>>),
      Expression(3, Ident("a"))>>

\* `char a; printf(a); int b; printf(b);`
CastUnit ==
    <<Declaration(1, QualifiedType(FALSE, "char"), "a", NoExpr), Printf(2, Ident("a")),
      Declaration(3, QualifiedType(FALSE, "int"), "b", NoExpr), Printf(4, Ident("b"))>>

\* `int a; const double a = 1; a;` and `int a = 1; int a = a; printf(a);`
FixedUnits ==
    {<<Declaration(1, QualifiedType(FALSE, "int"), "a", NoExpr),
       Declaration(2, QualifiedType(TRUE, "double"), "a", Dec(1)),
       Expression(3, Ident("a"))>>,
     <<Declaration(1, QualifiedType(FALSE, "int"), "a", Dec(1)),
       Declaration(2, QualifiedType(FALSE, "int"), "a", Ident("a")),
       Printf(3, Ident("a"))>>,
     ShadowUnit, CastUnit}
    \cup {PrintfUnit(ty) : ty \in PrintfTypes}

Units == UNION {UnitsOfLen(n) : n \in 0 .. MaxUnit} \cup FixedUnits

\* ---- build_ir_from_ast as a state machine ----

NoRoot == [k |-> "NoRoot"]

InitLower ==
    /\ overflow_checks = FALSE
    /\ ast = <<>>
    /\ input = <<>>
    /\ first = <<>>
    /\ ext = 0
    /\ pos = 0
    /\ last_assign = NoFact
    /\ pass = 0
    /\ status = "lowering"
    /\ global \in Units
    /\ stmt_index = 1
    /\ root_table = <<>>
    /\ root_scope = [n \in Names |-> 0]
    /\ res = new_ok(<<>>)
    /\ returned = <<>>
    /\ root = NoRoot
    /\ fit_value = <<>>
    /\ opts = <<>>
    /\ opt_index = 0
    /\ fit = <<>>

Lowering == status = "lowering" /\ root = NoRoot /\ stmt_index <= Len(global)

\* the statement the loop of build_ir_from_ast is at
Statement == global[stmt_index]

\* one iteration of `for statement in &ast.global.0`: r is what
\* build_ir_from_statement came to
\* the loop left at the first statement that fails (a variant of
\* StatementLowered that C14 rules out)
StatementLoweredFailFast(r) ==
    /\ root_table' = r.table
    /\ root_scope' = r.scope
    /\ res' = add_to(r.res, res)
    /\ returned' = Append(returned, r.res)
    /\ stmt_index' = IF r.res.ok THEN stmt_index + 1 ELSE Len(global) + 1
    /\ UNCHANGED <<global, root>>
    /\ UNCHANGED <<fold_vars, fit_vars>>

StatementLowered(r) ==
    /\ root_table' = r.table
    /\ root_scope' = r.scope
    /\ res' = add_to(r.res, res)
    /\ returned' = Append(returned, r.res)
    /\ stmt_index' = stmt_index + 1
    /\ UNCHANGED <<global, root>>
    /\ UNCHANGED <<fold_vars, fit_vars>>

LowerDeclaration ==
    /\ Lowering
    /\ Statement.k = "Declaration"
    /\ StatementLowered(build_ir_from_statement(Statement, root_table, root_scope))

LowerExpression ==
    /\ Lowering
    /\ Statement.k = "Expression"
    /\ StatementLowered(build_ir_from_statement(Statement, root_table, root_scope))

LowerPrintf ==
    /\ Lowering
    /\ Statement.k = "Printf"
    /\ StatementLowered(build_ir_from_statement(Statement, root_table, root_scope))

LowerBlockStatement ==
    /\ Lowering
    /\ Statement.k = "BlockStatement"
    /\ StatementLowered(build_ir_from_statement(Statement, root_table, root_scope))

\* `res.map(|stmts| Root { global: Block(stmts), table: root_table.into_table() })`
BuildIrReturns ==
    /\ status = "lowering"
    /\ root = NoRoot
    /\ stmt_index = Len(global) + 1
    /\ root' = [res EXCEPT !.value = [global |-> Block(res.value), table |-> root_table]]
    /\ UNCHANGED <<global, stmt_index, root_table, root_scope, res, returned>>
    /\ UNCHANGED <<fold_vars, fit_vars>>

NextLower ==
    \/ LowerDeclaration
    \/ LowerExpression
    \/ LowerPrintf
    \/ LowerBlockStatement
    \/ BuildIrReturns

SpecLower == InitLower /\ [][NextLower]_vars

\* ---- what the claims about lowering speak of ----

\* the index of the first declaration of name among the statements before j,
\* 0 if there is none
RECURSIVE FirstDecl(_, _, _)
FirstDecl(name, j, from) ==
    IF from >= j THEN 0
    ELSE IF global[from].k = "Declaration" /\ global[from].ident.data = name THEN from
    ELSE FirstDecl(name, j, from + 1)

\* the number of declarations of distinct names among the statements before j
DeclaredBefore(j) == Cardinality({n \in Names : FirstDecl(n, j, 1) # 0})

\* the ids an IR expression refers to
RECURSIVE IdentIds(_)
IdentIds(e) ==
    CASE e.expr = "Ident" -> {e.id}
      [] e.expr = "Cast" -> IdentIds(e.inner)
      [] e.expr = "Assign" -> IdentIds(e.to) \cup IdentIds(e.from)
      [] OTHER -> {}

\* the diagnostics of r with the given tag
Tagged(r, tag) == {k \in 1 .. Len(r.diags) : r.diags[k].tag = tag}

(***************************************************************************)
(* C9  Declaration lowering order prevents self-reference.  Lowering       *)
(* `T a = init` never makes an identifier of init resolve to the id this   *)
(* declaration allocates: the initializing assignment refers, on its       *)
(* right, only to ids that existed before; `T a = a` with no earlier a     *)
(* reports a as undeclared, and with an earlier a does not.  The id        *)
(* allocated is visible afterwards: a later use of the name resolves to    *)
(* the id of its first declaration, and a use with no declaration before   *)
(* it is undeclared.                                                       *)
(***************************************************************************)
C9_Step ==
    (/\ Lowering
     /\ Statement.k = "Declaration"
     /\ Statement.initializer # NoExpr
     /\ stmt_index' = stmt_index + 1)
    => /\ returned'[stmt_index].ok
          => /\ IdentIds(returned'[stmt_index].value.stmt.expr.from) \subseteq 1 .. Len(root_table)
             /\ returned'[stmt_index].value.stmt.expr.to.id = Len(root_table) + 1
             /\ Len(root_table') = Len(root_table) + 1
       /\ Statement.initializer.init.data = Ident(Statement.ident.data)
          => IF root_scope[Statement.ident.data] = 0
             THEN /\ ~returned'[stmt_index].ok
                  /\ \E k \in Tagged(returned'[stmt_index], "undeclared") :
                        /\ returned'[stmt_index].diags[k].name = Statement.ident.data
                        /\ returned'[stmt_index].diags[k].span = Statement.initializer.init.span
                  /\ root_scope'[Statement.ident.data] = Len(root_table) + 1
             ELSE Tagged(returned'[stmt_index], "undeclared") = {}

C9_Visible ==
    \A j \in 1 .. Len(returned) :
        global[j].k = "Expression"
        => IF FirstDecl(global[j].e.data.name, j, 1) = 0
           THEN ~returned[j].ok /\ Tagged(returned[j], "undeclared") # {}
           ELSE /\ returned[j].ok
                /\ root_table[returned[j].value.stmt.expr.id].original_span
                   = global[FirstDecl(global[j].e.data.name, j, 1)].ident.span

C9_NoSelfReference == [][C9_Step]_vars /\ []C9_Visible

\* `int a = a; a;` is lowered: the initializer's a was undeclared, the a of
\* the second statement is id 1
C9_Witness ==
    /\ status = "lowering"
    /\ Len(returned) = 2
    /\ global[1] = Declaration(1, QualifiedType(FALSE, "int"), "a", Ident("a"))
    /\ global[2] = Expression(2, Ident("a"))
    /\ ~returned[1].ok
    /\ Tagged(returned[1], "undeclared") = {1}
    /\ returned[2].ok
    /\ returned[2].value.stmt.expr.id = 1

(***************************************************************************)
(* C10  Redeclaration.  Declaring a name the scope already has yields      *)
(* exactly one "already defined" diagnostic for that declaration, at the   *)
(* second identifier and citing the span of the first declaration; the     *)
(* symbol table is left as it was (no id allocated, the item of the name   *)
(* still that of the first declaration), and the statement contributes no  *)
(* IR statement.                                                           *)
(***************************************************************************)
C10_Step ==
    (/\ Lowering
     /\ Statement.k = "Declaration"
     /\ root_scope[Statement.ident.data] # 0
     /\ stmt_index' = stmt_index + 1)
    => /\ Cardinality(Tagged(returned'[stmt_index], "already defined")) = 1
       /\ \A k \in Tagged(returned'[stmt_index], "already defined") :
             returned'[stmt_index].diags[k]
             = build_already_defined(
                  Statement.ident.span, Statement.ident.data,
                  global[FirstDecl(Statement.ident.data, stmt_index, 1)].ident.span)
       /\ root_table' = root_table
       /\ root_scope' = root_scope
       /\ ~returned'[stmt_index].ok
       /\ returned'[stmt_index].value = Absent
       /\ res'.value = res.value

\* the item of every declared name is the item of its first declaration
C10_FirstKept ==
    \A n \in Names :
        (status = "lowering" /\ FirstDecl(n, stmt_index, 1) # 0)
        => /\ root_scope[n] # 0
           /\ Len(root_table) = DeclaredBefore(stmt_index)
           /\ root_table[root_scope[n]]
              = Item(from_ast_type(global[FirstDecl(n, stmt_index, 1)].type_name.inner),
                     global[FirstDecl(n, stmt_index, 1)].type_name.is_const,
                     global[FirstDecl(n, stmt_index, 1)].ident.span,
                     global[FirstDecl(n, stmt_index, 1)].initializer # NoExpr)

C10_Redeclaration == [][C10_Step]_vars /\ []C10_FirstKept

\* `int a; const double a = 1;` is lowered: one diagnostic, one item
C10_Witness ==
    /\ status = "lowering"
    /\ Len(returned) = 2
    /\ global[1] = Declaration(1, QualifiedType(FALSE, "int"), "a", NoExpr)
    /\ global[2] = Declaration(2, QualifiedType(TRUE, "double"), "a", Dec(1))
    /\ returned[2].diags
       = <<build_already_defined(Span(2, "ident"), "a", Span(1, "ident"))>>
    /\ root_table = <<Item(Scalar("Int"), FALSE, Span(1, "ident"), FALSE)>>
    /\ res.value = <<>>

\* the declarations written inside the block statements before statement j
RECURSIVE InnerDecls(_)
InnerDecls(j) ==
    IF j <= 1 THEN 0
    ELSE InnerDecls(j - 1)
         + (IF global[j - 1].k = "BlockStatement"
            THEN Cardinality({i \in 1 .. Len(global[j - 1].bs) :
                                 global[j - 1].bs[i].k = "Declaration"})
            ELSE 0)

ConstInit(j) ==
    /\ global[j].k = "Declaration"
    /\ global[j].type_name.is_const
    /\ global[j].initializer # NoExpr

(***************************************************************************)
(* C12  The initializing assignment of `const T a = init` is never         *)
(* rejected as an assignment to a const: when the declaration is lowered,  *)
(* the target of the synthesized assignment has is_const = FALSE while the *)
(* item the declaration put in the table keeps is_const = TRUE.            *)
(***************************************************************************)
C12_ConstInitialization ==
    status = "lowering"
    => \A j \in 1 .. Len(returned) :
          ConstInit(j)
          => /\ Tagged(returned[j], "assign to const") = {}
             /\ returned[j].ok
                => /\ returned[j].value.stmt.expr.expr = "Assign"
                   /\ returned[j].value.stmt.expr.to.is_const = FALSE
                   /\ root_table[returned[j].value.stmt.expr.to.id].is_const = TRUE
                   /\ root_table[returned[j].value.stmt.expr.to.id].original_span
                      = global[j].ident.span

\* `const double a = 1;` is lowered to an assignment
C12_Witness ==
    /\ status = "lowering"
    /\ \E j \in 1 .. Len(returned) :
          /\ ConstInit(j)
          /\ returned[j].ok
          /\ returned[j].value.stmt.expr.to.is_const = FALSE
          /\ root_table[returned[j].value.stmt.expr.to.id].is_const = TRUE

\* the diagnostics of the first n statements, in source order
RECURSIVE DiagsUpTo(_)
DiagsUpTo(n) == IF n = 0 THEN <<>> ELSE DiagsUpTo(n - 1) \o returned[n].diags

\* statement j redeclares a name and initializes it with an undeclared one
FailsTwice(j) ==
    /\ global[j].k = "Declaration"
    /\ FirstDecl(global[j].ident.data, j, 1) # 0
    /\ global[j].initializer # NoExpr
    /\ global[j].initializer.init.data.k = "Ident"
    /\ FirstDecl(global[j].initializer.init.data.name, j, 1) = 0

(***************************************************************************)
(* C13  No diagnostic is dropped: the diagnostics accumulated by           *)
(* build_ir_from_ast, and those of the result it returns, are the          *)
(* diagnostics of the top-level statements in source order; a declaration  *)
(* that redeclares a name and whose initializer fails reports both the     *)
(* redeclaration and the initializer's diagnostic.                         *)
(***************************************************************************)
C13_NoDiagnosticDropped ==
    status = "lowering"
    => /\ res.diags = DiagsUpTo(Len(returned))
       /\ root # NoRoot => root.diags = DiagsUpTo(Len(global))
       /\ \A j \in 1 .. Len(returned) :
             FailsTwice(j)
             => /\ Len(returned[j].diags) = 2
                /\ \E k \in Tagged(returned[j], "already defined") :
                      returned[j].diags[k].span = global[j].ident.span
                /\ \E k \in Tagged(returned[j], "undeclared") :
                      returned[j].diags[k].span = global[j].initializer.init.span

\* a unit whose second statement fails twice, after a statement that failed,
\* has been lowered to the end
C13_Witness ==
    /\ status = "lowering"
    /\ root # NoRoot
    /\ Len(global) = 2
    /\ returned[1].diags # <<>>
    /\ FailsTwice(2)
    /\ Len(root.diags) = 3

\* the IR statements of the first n statements that were lowered with
\* success, in source order
RECURSIVE Kept(_)
Kept(n) ==
    IF n = 0 THEN <<>>
    ELSE IF returned[n].ok /\ returned[n].value # NoStmt
         THEN Append(Kept(n - 1), returned[n].value)
         ELSE Kept(n - 1)

\* lowering a block statement touches neither the symbol table nor the IR
C14_Step ==
    (/\ Lowering
     /\ Statement.k = "BlockStatement"
     /\ stmt_index' = stmt_index + 1)
    => /\ returned'[stmt_index]
          = new_err(build_unimplemented(Statement.span, "blocks"))
       /\ returned'[stmt_index].value = Absent
       /\ root_table' = root_table
       /\ root_scope' = root_scope
       /\ res'.value = res.value
       /\ res'.diags = Append(res.diags, build_unimplemented(Statement.span, "blocks"))

\* every statement is lowered, and the IR block is made of the statements
\* lowered with success
C14_AllLowered ==
    status = "lowering"
    => /\ res.value = Kept(Len(returned))
       /\ \A j \in 1 .. Len(returned) :
             (returned[j].ok /\ returned[j].value # NoStmt)
             => returned[j].value.span = global[j].span
       /\ root # NoRoot
          => /\ Len(returned) = Len(global)
             /\ root.value.global = Block(Kept(Len(global)))

ArgType(j) ==
    IF global[j].e.data.k = "Ident"
    THEN from_ast_type(global[FirstDecl(global[j].e.data.name, j, 1)].type_name.inner)
    ELSE Scalar(IF global[j].e.data.lit = "Float" THEN "Double" ELSE "Int")

\* the printf statements lowered so far
LoweredPrintfs ==
    {j \in 1 .. Len(returned) : global[j].k = "Printf" /\ returned[j].ok}

(***************************************************************************)
(* C15  as claimed: a char or short printf argument is wrapped in a cast   *)
(* to int, a float argument in a cast to double, and an int, long, double  *)
(* or long double argument is passed through with no cast and its type     *)
(* unchanged.                                                              *)
(***************************************************************************)
C15_DefaultPromotion ==
    status = "lowering"
    => \A j \in LoweredPrintfs :
          LET arg == returned[j].value.stmt.expr
          IN  /\ ArgType(j) \in {Scalar("Char"), Scalar("Short")}
                 => /\ arg.expr = "Cast"
                    /\ arg.ty = Scalar("Int")
                    /\ arg.inner.ty = ArgType(j)
              /\ ArgType(j) = Scalar("Float")
                 => /\ arg.expr = "Cast"
                    /\ arg.ty = Scalar("Double")
                    /\ arg.inner.ty = ArgType(j)
              /\ ArgType(j) \in {Scalar("Int"), Scalar("Long"), Scalar("Double"),
                                 Scalar("LongDouble")}
                 => /\ arg.expr # "Cast"
                    /\ arg.ty = ArgType(j)

\* `long double a; printf(a);` is lowered: the argument is cast to double
C15_Witness ==
    /\ status = "lowering"
    /\ global = PrintfUnit("long double")
    /\ Len(returned) = 2
    /\ returned[2].ok
    /\ returned[2].value.stmt.expr.expr = "Cast"
    /\ returned[2].value.stmt.expr.ty = Scalar("Double")
    /\ returned[2].value.stmt.expr.inner.ty = Scalar("LongDouble")

(***************************************************************************)
(* util.rs: find_first_fit.  An i128 is its 128 two's complement bits,     *)
(* most significant first, so that the literals of the width of a long     *)
(* are values of the model.                                                *)
(***************************************************************************)
BitIndexes == 1 .. I128Bits

\* 2^k - 1: the k low bits set
LowOnes(k) == [i \in BitIndexes |-> IF i > I128Bits - k THEN 1 ELSE 0]

\* 2^k
PowerOfTwo(k) == [i \in BitIndexes |-> IF i = I128Bits - k THEN 1 ELSE 0]

\* 2^k + 1
PowerOfTwoPlusOne(k) ==
    [i \in BitIndexes |-> IF i = I128Bits - k \/ i = I128Bits THEN 1 ELSE 0]

\* !v, which is -v - 1
Not(v) == [i \in BitIndexes |-> 1 - v[i]]

\* `value < 0`
IsNeg(v) == v[1] = 1

\* a <= b, as i128
Leq(a, b) ==
    IF a[1] # b[1] THEN a[1] = 1
    ELSE \/ a = b
         \/ \E i \in BitIndexes : a[i] < b[i] /\ \A j \in 1 .. i - 1 : a[j] = b[j]

\* i128::leading_zeros (bit = 0) and i128::leading_ones (bit = 1): the number
\* of positions before the first one that holds another bit
Leading(v, bit) ==
    IF \A i \in BitIndexes : v[i] = bit THEN I128Bits
    ELSE (CHOOSE i \in BitIndexes : v[i] # bit /\ \A j \in 1 .. i - 1 : v[j] = bit) - 1

leading_zeros(v) == Leading(v, 0)

leading_ones(v) == Leading(v, 1)

\* `let needed_bits = if is_neg { .. } else { .. }`
needed_bits(v) ==
    IF IsNeg(v) THEN I128Bits - leading_ones(v) ELSE I128Bits - leading_zeros(v)

\* Arithmetic::is_signed
is_signed(opt) == opt \in {"SignedInt", "SignedLongInt"}

\* Arithmetic::size_in_bits, for the target X86_64
size_in_bits(opt, settings) ==
    CASE opt \in {"SignedInt", "UnsignedInt"} -> 32
      [] opt \in {"SignedLongInt", "UnsignedLongInt"} -> 64

X86_64 == [target |-> "X86_64"]

\* no headroom taken for a signed candidate (a variant of bits that C17
\* rules out)
BitsWithoutSign(opt, is_neg, settings) ==
    size_in_bits(opt, settings) - (IF is_neg THEN 1 ELSE 0)

\* `let bits = opt.size_in_bits(settings) - if opt.is_signed() || is_neg { 1 } else { 0 }`
bits(opt, is_neg, settings) ==
    size_in_bits(opt, settings) - (IF is_signed(opt) \/ is_neg THEN 1 ELSE 0)

NoFit == [k |-> "NoFit"]

Some(opt) == [k |-> "Some", opt |-> opt]

None == [k |-> "None"]

\* ---- the values and the candidate lists find_first_fit is given ----

MaxOpts == 2

Arithmetics == {"SignedInt", "UnsignedInt", "SignedLongInt", "UnsignedLongInt"}

\* the candidates of tests::best_fit
BestFitOrder == <<"SignedInt", "SignedLongInt", "UnsignedLongInt">>

RECURSIVE OptsOfLen(_)
OptsOfLen(n) ==
    IF n = 0 THEN {<<>>}
    ELSE {Append(o, a) : o \in OptsOfLen(n - 1), a \in Arithmetics}

OptLists == UNION {OptsOfLen(n) : n \in 0 .. MaxOpts} \cup {BestFitOrder}

\* 2^k - 1, 2^k, 2^k + 1 and their complements -2^k, -2^k - 1, -2^k - 2
FitValues ==
    LET around == UNION {{LowOnes(k), PowerOfTwo(k), PowerOfTwoPlusOne(k)} :
                            k \in 0 .. I128Bits - 2}
    IN  around \cup {Not(v) : v \in around}

\* ---- find_first_fit as a state machine: one step per candidate ----

InitFit ==
    /\ overflow_checks = FALSE
    /\ ast = <<>>
    /\ input = <<>>
    /\ first = <<>>
    /\ ext = 0
    /\ pos = 0
    /\ last_assign = NoFact
    /\ pass = 0
    /\ status = "fitting"
    /\ global = <<>>
    /\ stmt_index = 0
    /\ root_table = <<>>
    /\ root_scope = <<>>
    /\ res = <<>>
    /\ returned = <<>>
    /\ root = <<>>
    /\ fit_value \in FitValues
    /\ opts \in OptLists
    /\ opt_index = 1
    /\ fit = NoFit

Fitting == status = "fitting" /\ fit = NoFit

\* `if bits >= needed_bits { return Some(*opt); }`
ReturnSome ==
    /\ Fitting
    /\ opt_index <= Len(opts)
    /\ bits(opts[opt_index], IsNeg(fit_value), X86_64) >= needed_bits(fit_value)
    /\ fit' = Some(opts[opt_index])
    /\ UNCHANGED <<fit_value, opts, opt_index>>
    /\ UNCHANGED <<fold_vars, lower_vars>>

\* the next iteration of `for opt in opts`
NextOpt ==
    /\ Fitting
    /\ opt_index <= Len(opts)
    /\ bits(opts[opt_index], IsNeg(fit_value), X86_64) < needed_bits(fit_value)
    /\ opt_index' = opt_index + 1
    /\ UNCHANGED <<fit_value, opts, fit>>
    /\ UNCHANGED <<fold_vars, lower_vars>>

\* the `None` after the loop
ReturnNone ==
    /\ Fitting
    /\ opt_index > Len(opts)
    /\ fit' = None
    /\ UNCHANGED <<fit_value, opts, opt_index>>
    /\ UNCHANGED <<fold_vars, lower_vars>>

NextFit ==
    \/ ReturnSome
    \/ NextOpt
    \/ ReturnNone

SpecFit == InitFit /\ [][NextFit]_vars

\* the value lies in the range of the type: -2^(w-1) .. 2^(w-1) - 1 for a
\* signed type of w bits, 0 .. 2^w - 1 for an unsigned one
InRange(v, opt) ==
    IF is_signed(opt)
    THEN /\ Leq(Not(LowOnes(size_in_bits(opt, X86_64) - 1)), v)
         /\ Leq(v, LowOnes(size_in_bits(opt, X86_64) - 1))
    ELSE /\ Leq(LowOnes(0), v)
         /\ Leq(v, LowOnes(size_in_bits(opt, X86_64)))

(***************************************************************************)
(* C16  as claimed: find_first_fit is lossless: whatever the value and the *)
(* candidate list, a returned Some(t) has the value in the range of t; a   *)
(* negative value is never fitted to an unsigned type.                     *)
(***************************************************************************)
C16_Lossless ==
    (status = "fitting" /\ fit # NoFit /\ fit # None)
    => /\ InRange(fit_value, fit.opt)
       /\ IsNeg(fit_value) => is_signed(fit.opt)

\* -1 is fitted to unsigned int, the first candidate
C16_Witness ==
    /\ status = "fitting"
    /\ fit_value = Not(LowOnes(0))
    /\ opts = <<"UnsignedInt", "SignedInt">>
    /\ fit = Some("UnsignedInt")

\* what tests::best_fit and section 8 expect of BestFitOrder
Expected(v) ==
    IF InRange(v, "SignedInt") THEN Some("SignedInt")
    ELSE IF InRange(v, "SignedLongInt") THEN Some("SignedLongInt")
    ELSE IF InRange(v, "UnsignedLongInt") THEN Some("UnsignedLongInt")
    ELSE None

(***************************************************************************)
(* C17  With the candidates [signed int, signed long, unsigned long] of    *)
(* 32, 64 and 64 bits find_first_fit returns signed int for                *)
(* -2^31 <= v <= 2^31 - 1, signed long for every other v with              *)
(* -2^63 <= v <= 2^63 - 1, unsigned long for 2^63 <= v <= 2^64 - 1 and     *)
(* None otherwise.  Whatever the candidate list, no candidate before the   *)
(* returned one holds the value, and None is returned only when no         *)
(* candidate holds it.                                                     *)
(***************************************************************************)
C17_FirstFit ==
    (status = "fitting" /\ fit # NoFit)
    => /\ opts = BestFitOrder => fit = Expected(fit_value)
       /\ fit # None
          => /\ fit.opt = opts[opt_index]
             /\ \A j \in 1 .. opt_index - 1 : ~InRange(fit_value, opts[j])
       /\ fit = None => \A j \in 1 .. Len(opts) : ~InRange(fit_value, opts[j])

\* 2^63 has been fitted to unsigned long, the third candidate
C17_Witness ==
    /\ status = "fitting"
    /\ opts = BestFitOrder
    /\ fit_value = PowerOfTwo(63)
    /\ opt_index = 3
    /\ fit = Some("UnsignedLongInt")

IsFloatLiteral(e) == e.k = "Literal" /\ e.lit = "Float"

\* a binary expression with one integer literal and one double literal operand
MixedOperands(e) ==
    /\ e.k = "Binary"
    /\ \/ IsIntLiteral(e.lhs) /\ IsFloatLiteral(e.rhs)
       \/ IsFloatLiteral(e.lhs) /\ IsIntLiteral(e.rhs)

IntegerOnlyOperators == {"Pipe", "Caret", "Ampersand", "Percent", "DoubleAngleLeft"}

ArithmeticOperators == {"Plus", "Minus", "Star", "Slash"}

\* the mixed-operand rule for the expression statement j of function i
C18_Mixed(i, j) ==
    (/\ Visited(i, j)
     /\ InStmt(i, j).k = "Expression"
     /\ MixedOperands(InStmt(i, j).e))
    => /\ InStmt(i, j).e.op \in IntegerOnlyOperators
          => /\ OutStmt(i, j).e.k = "Binary"
             /\ OutStmt(i, j).e.op = InStmt(i, j).e.op
       /\ InStmt(i, j).e.op \in ArithmeticOperators => IsFloatLiteral(OutStmt(i, j).e)
       /\ InStmt(i, j).e.op \in ComparisonOperators
          => /\ OutStmt(i, j).e.k = "Literal"
             /\ OutStmt(i, j).e.lit = "Dec"
             /\ OutStmt(i, j).e.val \in {0, 1}

(***************************************************************************)
(* C18  as claimed: with one integer literal and one double literal        *)
(* operand, `| ^ & % <<` never fold, `+ - * /` fold to a double literal,   *)
(* and the comparisons `< > <= >= == !=` and `&&`, `||` fold to the        *)
(* integer literal 0 or 1.                                                 *)
(***************************************************************************)
C18_MixedOperandRule ==
    \A i \in FunctionIndexes : \A j \in StmtIndexes(i) : C18_Mixed(i, j)

\* `2 < 2.5` was visited and is still a binary expression
C18_Witness ==
    \E i \in FunctionIndexes : \E j \in StmtIndexes(i) :
        /\ Visited(i, j)
        /\ InStmt(i, j) = ExprStmt(Binary(Dec(2), "AngleLeft", Float(5, 2)))
        /\ OutStmt(i, j) = InStmt(i, j)

\* `++x`, `--x`, `x++`, `x--`, `&x` or `*x`, x an identifier
LvalueUnary(e) ==
    /\ e.k = "Unary"
    /\ e.op \in LvalueOperators \cup {"Star"}
    /\ e.e.k = "Ident"

(***************************************************************************)
(* C19  as claimed: const_fold leaves `++x`, `--x`, `x++`, `x--`, `&x`     *)
(* and `*x` as they are: the unary expression is not replaced by a         *)
(* literal and its operand stays the identifier, also when the identifier  *)
(* is tracked by the copy-propagation fact.                                *)
(***************************************************************************)
C19_LvalueOperandsKept ==
    \A i \in FunctionIndexes : \A j \in StmtIndexes(i) :
        (/\ Visited(i, j)
         /\ InStmt(i, j).k = "Expression"
         /\ LvalueUnary(InStmt(i, j).e))
        => OutStmt(i, j) = InStmt(i, j)

\* after `int x = 2;` the statement `*x;` has become `*2;`
C19_Witness ==
    \E i \in FunctionIndexes : \E j \in StmtIndexes(i) :
        /\ Visited(i, j)
        /\ j > 1
        /\ InStmt(i, j - 1) = DeclX
        /\ InStmt(i, j) = ExprStmt(Unary("Star", Ident("x")))
        /\ OutStmt(i, j) = ExprStmt(Unary("Star", Dec(2)))

NodeKinds == {"Cast", "FunctionCall", "ArraySubscript"}

\* the expression is, or holds, a cast, a call or a subscript
RECURSIVE ContainsNode(_)
ContainsNode(e) ==
    CASE e.k \in NodeKinds -> TRUE
      [] e.k = "Binary" -> ContainsNode(e.lhs) \/ ContainsNode(e.rhs)
      [] e.k = "Unary" -> ContainsNode(e.e)
      [] e.k = "Assignment" -> ContainsNode(e.rhs)
      [] OTHER -> FALSE

\* was, an expression of the input, and now, what const_fold left in its
\* place: a cast, call or subscript is kept with each child folded on its
\* own, an assignment keeps its left-hand side, and an expression that holds
\* such a node is kept
RECURSIVE NodesKept(_, _, _)
NodesKept(was, now, la) ==
    CASE was.k = "Cast" -> now.k = "Cast" /\ now.e = FoldChild(was.e, la).e
      [] was.k = "FunctionCall" ->
            /\ now.k = "FunctionCall"
            /\ Len(now.args) = Len(was.args)
            /\ \A n \in 1 .. Len(was.args) : now.args[n] = FoldChild(was.args[n], la).e
      [] was.k = "ArraySubscript" ->
            /\ now.k = "ArraySubscript"
            /\ now.lhs = FoldChild(was.lhs, la).e
            /\ now.rhs = FoldChild(was.rhs, la).e
      [] was.k = "Assignment" ->
            /\ now.k = "Assignment"
            /\ now.lhs = was.lhs
            /\ now.rhs = FoldChild(was.rhs, la).e
      [] was.k = "Binary" ->
            ContainsNode(was)
            => /\ now.k = "Binary"
               /\ now.op = was.op
               /\ NodesKept(was.lhs, now.lhs, la)
               /\ NodesKept(was.rhs, now.rhs, la)
      [] was.k = "Unary" ->
            ContainsNode(was)
            => /\ now.k = "Unary"
               /\ now.op = was.op
               /\ NodesKept(was.e, now.e, la)
      [] OTHER -> TRUE

(***************************************************************************)
(* C20  as claimed: after const_fold every cast, call and subscript of     *)
(* the input is still a node of its kind, and so is every expression that  *)
(* holds one; the inner expression of the cast, each argument of the call  *)
(* and each operand of the subscript is what folding it on its own gives,  *)
(* a literal when it evaluates; an assignment keeps its left-hand side and *)
(* has its right-hand side folded.                                         *)
(***************************************************************************)
C20_NodesNeverCollapse ==
    \A i \in FunctionIndexes : \A j \in StmtIndexes(i) :
        (Visited(i, j) /\ InStmt(i, j).k = "Expression")
        => NodesKept(InStmt(i, j).e, OutStmt(i, j).e, EnvAt(i, j))

\* `a + (int)(2 + 3)` was visited: the inner expression of the cast is
\* still `2 + 3`
C20_Witness ==
    \E i \in FunctionIndexes : \E j \in StmtIndexes(i) :
        /\ Visited(i, j)
        /\ InStmt(i, j)
           = ExprStmt(Binary(Ident("a"), "Plus", Cast(Binary(Dec(2), "Plus", Dec(3)))))
        /\ OutStmt(i, j) = InStmt(i, j)

\* was, a controlling expression or case label of the input, and now, what
\* const_fold left in its place: the literal of its value when it is built
\* only from integer literals and supported operators
ControlFolded(was, now) ==
    (was # NoExpr /\ IntegerExpression(was) /\ DirectEval(was, NoFact).ok)
    => LiteralFor(now, was, DirectEval(was, NoFact).v)

\* the controlling expression and the case labels of a statement
ControlsFolded(was, now) ==
    CASE was.k \in {"If", "While", "For"} -> ControlFolded(was.condition, now.condition)
      [] was.k = "Switch" ->
            /\ ControlFolded(was.expr, now.expr)
            /\ \A n \in 1 .. Len(was.cases) :
                  was.cases[n].c = "Expr"
                  => ControlFolded(was.cases[n].expr, now.cases[n].expr)
      [] OTHER -> TRUE

(***************************************************************************)
(* C21  as claimed: the controlling expression of every if, switch, while  *)
(* and for statement and every case label, when built only from literals   *)
(* and supported operators, is replaced by its literal: `switch (1 + 2)`   *)
(* becomes `switch (3)` and `case 1 + 2:` becomes `case 3:`.               *)
(***************************************************************************)
C21_ControlsFolded ==
    \A i \in FunctionIndexes : \A j \in StmtIndexes(i) :
        Visited(i, j) => ControlsFolded(InStmt(i, j), OutStmt(i, j))

\* `switch (1 + 2) { case 1 + 2: default: }` was visited and is unchanged,
\* while the `while (1 + 2)` after it has become `while (3)`
C21_Witness ==
    \E i \in FunctionIndexes :
        /\ Len(input[i].body.stmts) = 3
        /\ Visited(i, 2)
        /\ InStmt(i, 1) = SwitchLit
        /\ OutStmt(i, 1) = SwitchLit
        /\ InStmt(i, 2) = WhileLit
        /\ OutStmt(i, 2) = While(Dec(3), Block(<<>>))

(***************************************************************************)
(* The one-slot fact read off the tree: the fact a folded statement leaves *)
(* for the next statement of its block, and whether an expression differs  *)
(* from what it was only by substitutions that a given fact accounts for.  *)
(***************************************************************************)
\* the fact after a folded statement: (x, v) after a non-array declaration of
\* x whose initializer is now the literal v, none after anything else
FactAfter(st) ==
    IF PlainDecl(st) /\ st.initializer.k = "Literal" /\ st.initializer.lit # "String"
    THEN Fact(st.ident, fold_literal(st.initializer))
    ELSE NoFact

\* the names of the identifiers of an expression
RECURSIVE IdentNames(_)
IdentNames(e) ==
    CASE e.k = "Ident" -> {e.name}
      [] e.k \in {"Binary", "ArraySubscript", "Assignment"} ->
            IdentNames(e.lhs) \cup IdentNames(e.rhs)
      [] e.k \in {"Unary", "Cast"} -> IdentNames(e.e)
      [] e.k = "FunctionCall" -> UNION {IdentNames(e.args[n]) : n \in 1 .. Len(e.args)}
      [] OTHER -> {}

\* now is was, up to identifiers the fact names that became the fact's
\* literal and subtrees that became one literal and held no other identifier
RECURSIVE Traced(_, _, _)
Traced(was, now, fact) ==
    CASE now = was -> TRUE
      [] was.k = "Ident" ->
            /\ fact.some
            /\ was.name = fact.name
            /\ now = replace_with_literal(was, fact.value)
      [] now.k = "Literal" ->
            /\ IdentNames(was) \subseteq (IF fact.some THEN {fact.name} ELSE {})
            /\ DirectEval(was, fact).ok => now.val = DirectEval(was, fact).v
      [] now.k # was.k -> FALSE
      [] was.k \in {"Binary", "ArraySubscript", "Assignment"} ->
            /\ now = [was EXCEPT !.lhs = now.lhs, !.rhs = now.rhs]
            /\ Traced(was.lhs, now.lhs, fact)
            /\ Traced(was.rhs, now.rhs, fact)
      [] was.k \in {"Unary", "Cast"} ->
            /\ now = [was EXCEPT !.e = now.e]
            /\ Traced(was.e, now.e, fact)
      [] was.k = "FunctionCall" ->
            /\ Len(now.args) = Len(was.args)
            /\ \A n \in 1 .. Len(was.args) : Traced(was.args[n], now.args[n], fact)
      [] OTHER -> FALSE

TracedPart(was, now, fact) ==
    IF was.a = "Known" THEN now.a = "Known" /\ Traced(was.e, now.e, fact)
    ELSE now = was

\* the same for a statement folded with the given fact: its own expressions
\* are accounted for by that fact, or by none in a control-flow statement, and
\* each statement of a body by the statement before it in that body
RECURSIVE TracedStmt(_, _, _)
TracedStmts(was, now) ==
    /\ Len(now) = Len(was)
    /\ \A j \in 1 .. Len(was) :
          TracedStmt(was[j], now[j], IF j = 1 THEN NoFact ELSE FactAfter(now[j - 1]))

TracedBlock(was, now) ==
    IF was = NoBlock THEN now = NoBlock
    ELSE now # NoBlock /\ TracedStmts(was.stmts, now.stmts)

TracedCase(was, now) ==
    /\ now.c = was.c
    /\ (was.c = "Expr" => Traced(was.expr, now.expr, NoFact))
    /\ TracedBlock(was.body, now.body)

TracedDeclaration(was, now, fact) ==
    IF was.d = "FunctionDeclaration" THEN now = was
    ELSE /\ now.d = was.d
         /\ now.ident = was.ident
         /\ Traced(was.initializer, now.initializer, fact)
         /\ Len(now.array_parts) = Len(was.array_parts)
         /\ \A n \in 1 .. Len(was.array_parts) :
               TracedPart(was.array_parts[n], now.array_parts[n], fact)

TracedStmt(was, now, fact) ==
    /\ now.k = was.k
    /\ CASE was.k = "Declaration" -> TracedDeclaration(was, now, fact)
         [] was.k \in {"Expression", "Return"} -> Traced(was.e, now.e, fact)
         [] was.k = "If" ->
               /\ Traced(was.condition, now.condition, NoFact)
               /\ TracedBlock(was.if_body, now.if_body)
               /\ TracedBlock(was.else_body, now.else_body)
         [] was.k = "While" ->
               /\ Traced(was.condition, now.condition, NoFact)
               /\ TracedBlock(was.body, now.body)
         [] was.k = "For" ->
               /\ IF was.init = NoStmt THEN now.init = NoStmt
                  ELSE TracedStmt(was.init, now.init, NoFact)
               /\ Traced(was.condition, now.condition, NoFact)
               /\ Traced(was.iter, now.iter, NoFact)
               /\ TracedBlock(was.body, now.body)
         [] was.k = "Switch" ->
               /\ Traced(was.expr, now.expr, NoFact)
               /\ Len(now.cases) = Len(was.cases)
               /\ \A n \in 1 .. Len(was.cases) : TracedCase(was.cases[n], now.cases[n])
         [] was.k = "BlockStatement" -> TracedBlock(was.bs, now.bs)
         [] OTHER -> now = was

\* the fact the statement the loop is at is entitled to: that of the folded
\* statement just before it in the function body
FactBefore == IF pos >= 2 THEN FactAfter(ast[ext].body.stmts[pos - 1]) ELSE NoFact

(***************************************************************************)
(* C22  Substitution invariant of the one-slot fact.  Whenever const_fold  *)
(* replaces an occurrence of identifier x by a literal v, the statement    *)
(* holding it is immediately preceded, in the same block, by a non-array   *)
(* declaration of x whose initializer folded to v; a declaration without   *)
(* initializer or whose initializer does not fold, an array declaration    *)
(* and every other statement leave no fact; a global declaration is folded *)
(* with no fact and produces none.                                         *)
(***************************************************************************)
C22_Step ==
    /\ (InBody /\ status' = "folding")
       => /\ TracedStmt(Current, ast'[ext].body.stmts[pos], FactBefore)
          /\ last_assign' = FactAfter(ast'[ext].body.stmts[pos])
    /\ (Folding /\ ast[ext].x = "Declaration" /\ status' = "folding")
       => /\ TracedStmt(ast[ext].decl, ast'[ext].decl, NoFact)
          /\ last_assign = NoFact
          /\ last_assign' = NoFact

\* inside the loop of fold_block_statement, the end of the body included, the
\* fact is the one the statement before leaves; outside it there is none
C22_Fact ==
    status = "folding"
    => last_assign = (IF Folding /\ ast[ext].x = "FunctionDefinition" /\ pos >= 1
                      THEN FactBefore ELSE NoFact)

C22_SubstitutionInvariant == [][C22_Step]_vars /\ []C22_Fact

\* global `int x = 2; int y = x + 1;` and a function body `int y = x + 1;` are
\* unchanged, the body `int x = 2; int y = x + 1;` has y = 3
C22_Witness ==
    /\ status = "done"
    /\ pass = 1
    /\ input = <<GlobalDeclaration(DeclX), GlobalDeclaration(DeclY),
                 FunctionDefinition(Block(<<DeclY>>)),
                 FunctionDefinition(Block(<<DeclX, DeclY>>))>>
    /\ ast = <<GlobalDeclaration(DeclX), GlobalDeclaration(DeclY),
               FunctionDefinition(Block(<<DeclY>>)),
               FunctionDefinition(Block(<<DeclX, VarDecl("y", Dec(3), <<>>)>>))>>

\* the types maybe_cast is asked for
CastTargets ==
    {Scalar(a) : a \in {"Char", "Short", "Int", "Long", "Float", "Double", "LongDouble"}}
    \cup {Pointer}

\* out is what maybe_cast(e, t) has to be
CastLaw(e, t, out) ==
    /\ out.ty = t
    /\ (t = e.ty) <=> (out = e)
    /\ (t # e.ty) => out = [span |-> e.span, ty |-> t, expr |-> "Cast", inner |-> e]
    /\ maybe_cast(out, t) = out

\* the type the Printf arm asks maybe_cast for
PrintfTarget(e) == Scalar(IF is_integral(e.ty.a) THEN promote(e.ty.a) ELSE "Double")

(***************************************************************************)
(* C23  maybe_cast(e, t) returns e itself exactly when t is e's type, and  *)
(* otherwise a Cast node of type t that wraps e and has e's span; either   *)
(* way the result has type t, no target type is refused, and casting the   *)
(* result to t again changes nothing.  Checked on the scalar argument of   *)
(* every printf as it is lowered: on the node the statement is left with,  *)
(* and on maybe_cast of that argument to every type.                       *)
(***************************************************************************)
C23_Step ==
    (/\ Lowering
     /\ Statement.k = "Printf"
     /\ build_ir_expr(Statement.e, root_table, root_scope).ok
     /\ build_ir_expr(Statement.e, root_table, root_scope).value.ty.c = "Scalar")
    => /\ returned'[Len(returned')].ok
       /\ CastLaw(build_ir_expr(Statement.e, root_table, root_scope).value,
                  PrintfTarget(build_ir_expr(Statement.e, root_table, root_scope).value),
                  returned'[Len(returned')].value.stmt.expr)
       /\ \A t \in CastTargets :
             CastLaw(build_ir_expr(Statement.e, root_table, root_scope).value, t,
                     maybe_cast(build_ir_expr(Statement.e, root_table, root_scope).value, t))

C23_MaybeCast == [][C23_Step]_vars

\* `char a; printf(a); int b; printf(b);`: the first argument is a Cast to int
\* around `a` with a's span, the second is `b` itself
C23_Witness ==
    /\ global = CastUnit
    /\ Len(returned) = 4
    /\ returned[2].ok
    /\ returned[2].value.stmt.expr.expr = "Cast"
    /\ returned[2].value.stmt.expr.ty = Scalar("Int")
    /\ returned[2].value.stmt.expr.inner.ty = Scalar("Char")
    /\ returned[2].value.stmt.expr.span = returned[2].value.stmt.expr.inner.span
    /\ returned[4].ok
    /\ returned[4].value.stmt.expr.expr = "Ident"
    /\ returned[4].value.stmt.expr.ty = Scalar("Int")

====
